---------------------------- MODULE Spec2Model ----------------------------
(***************************************************************************)
(* A model of the logo-similarity pipeline: perceptual-hash shortlist,     *)
(* pairwise scoring, union-find grouping, the reporter, the per-site       *)
(* driver loop and the candidate selector.                                 *)
(*                                                                         *)
(* Conventions                                                             *)
(*   - a website key (host label) is a sequence of character codes, and    *)
(*     keys are compared as Python compares str: lexicographically;        *)
(*   - a hash string is a sequence of hexadecimal digit values 0..15,      *)
(*     <<>> standing for a missing or empty hash (both are falsy);         *)
(*   - a similarity component is counted in units of 1/64, a fused score   *)
(*     in units of 1/64000 (weights are per mille), so that every score    *)
(*     the code computes is an exact integer here;                         *)
(*   - a Python dict is a record [order, ...]: its keys in insertion       *)
(*     order, and the mapping.                                             *)
(***************************************************************************)
EXTENDS Integers, Sequences, FiniteSets, TLC

VARIABLES
    pc,              \* position of the driver that the specification runs
    features_order,  \* features_map: keys in insertion order
    features,        \* features_map: key -> LogoFeatures
    orb,             \* what orb_keypoints_match returns (units of 1/64)
    total,           \* total_sites: the number of input entries
    uf_state,        \* the UnionFind instance uf of group_and_report
    applied,         \* the (left, right) pairs union() has been called with
    report,          \* what group_and_report returned, and each report's text
    written,         \* the report files on disk
    write_log,       \* group_and_report: the report files it opened for writing, in order
    entries,         \* main: the input entries, each the URL its page is served from
    lazy,            \* --lazy-selection, the lazy argument of select_best
    cursor,          \* _process_sites: index of the entry the loop is at
    feature_rows,    \* _process_sites: the LogoFeatures rows so far
    assets,          \* the file names in the assets directory
    exit_code,       \* main: None while running, then the process exit code
    raised,          \* the call whose exception ended main ("" if none)
    candidates,      \* select_best: the candidates argument
    base_url,        \* select_best: the base_url argument
    selected,        \* select_best: what it returned, its byte loads and scored copies
    page,            \* discover_logo_candidates: the elements of the document
    attr_order,      \* the order the set of attribute values was iterated in
    failure,         \* the extractor that raised, and after how many candidates
    fetch_url,       \* fetch_html: the url argument
    attempts,        \* fetch_html: what each call of _fetch_once ended in, in order
    fetched,         \* fetch_html: None while it runs, then what the call ended in
    pair,            \* combined_similarity: the feature records (fA, fB)
    orb_given,       \* combined_similarity: the orb_score argument
    fused,           \* combined_similarity(fA, fB, o) and combined_similarity(fB, fA, o)
    anchor_key,      \* shortlist_by_hash: the website of fA
    shortlisted,     \* shortlist_by_hash: None, then the list it returned
    score_input,     \* score_candidate: the candidate and the image_info
    score_output,    \* score_candidate: None, then the score it returned
    trim_input,      \* to_png_rgba: the decoded image, in its own mode
    trim_output,     \* trim_and_square: None, then what it returned
    asset_log,       \* the files written to the assets directory, in order, and for which entry
    caller_pc,       \* fetch.py: where each caller is in _get_session, render_page or _shutdown_playwright
    calls_left,      \* fetch.py: the calls each caller has yet to make
    locks,           \* fetch.py: the holder of _session_lock and of _playwright_lock, 0 when free
    globals,         \* fetch.py: _session, _playwright, _browser, _browser_context, 0 for None
    locals,          \* fetch.py: the local variables of each caller
    objects          \* fetch.py: the sessions made, the renderer objects that are live or closed

groupVars == <<features_order, features, orb, total, uf_state, applied, report, written,
              write_log>>

runVars == <<entries, lazy, cursor, feature_rows, assets, exit_code, raised>>

selVars == <<candidates, base_url, selected>>

discVars == <<page, attr_order, failure>>

fetchVars == <<fetch_url, attempts, fetched>>

simVars == <<pair, orb_given, fused>>

shortVars == <<anchor_key, shortlisted>>

scoreVars == <<score_input, score_output>>

trimVars == <<trim_input, trim_output>>

logVars == <<asset_log>>

concVars == <<caller_pc, calls_left, locks, globals, locals, objects>>

vars == <<pc, groupVars, runVars, selVars, discVars, fetchVars, simVars, shortVars,
         scoreVars, trimVars, logVars, concVars>>

\* Python's None, and an optional value x as <<x>>.
None == <<>>

Some(x) == <<x>>

-----------------------------------------------------------------------------
(* Generic helpers                                                         *)

Min(a, b) == IF a <= b THEN a ELSE b

Max(a, b) == IF a >= b THEN a ELSE b

Range(s) == {s[i] : i \in 1..Len(s)}

Take(s, n) == SubSeq(s, 1, Min(n, Len(s)))

RECURSIVE SumSeq(_)
SumSeq(s) == IF s = <<>> THEN 0 ELSE Head(s) + SumSeq(Tail(s))

\* Python's str comparison a < b: first differing character decides, a proper
\* prefix is smaller.
RECURSIVE LexLess(_, _)
LexLess(a, b) ==
    IF b = <<>> THEN FALSE
    ELSE IF a = <<>> THEN TRUE
    ELSE IF Head(a) # Head(b) THEN Head(a) < Head(b)
    ELSE LexLess(Tail(a), Tail(b))

LexLeq(a, b) == a = b \/ LexLess(a, b)

\* sorted(keys): ascending, keys are distinct.
RECURSIVE SortedKeys(_)
SortedKeys(S) ==
    IF S = {} THEN <<>>
    ELSE LET m == CHOOSE x \in S : \A y \in S : LexLeq(x, y)
         IN <<m>> \o SortedKeys(S \ {m})

\* A sort that leaves the list as it is.
SortLeavesOrder(s) == s

\* list.sort(key=...) and sorted(key=...) are stable: among the elements of s
\* (records with an integer field key) an element is preceded by those of smaller
\* key and by the earlier ones of equal key.
SortStableByKey(s) ==
    LET n == Len(s)
        keys == SubSeq([i \in 1..n |-> s[i].key], 1, n)
        pos == SubSeq([i \in 1..n |->
                         1 + Cardinality({j \in 1..n :
                                 \/ keys[j] < keys[i]
                                 \/ (keys[j] = keys[i] /\ j < i)})], 1, n)
    IN  [k \in 1..n |-> s[CHOOSE i \in 1..n : pos[i] = k]]

-----------------------------------------------------------------------------
(* features/perceptual.py                                                  *)

\* int.bit_count() of the xor of two hexadecimal digits.
NibbleXorBits(x, y) ==
    Cardinality({b \in 0..3 : ((x \div (2 ^ b)) % 2) # ((y \div (2 ^ b)) % 2)})

\* str.zfill(n): pad with zero digits on the left.
RECURSIVE zfill(_, _)
zfill(h, n) == IF Len(h) >= n THEN h ELSE zfill(<<0>> \o h, n)

hamming_distance_hex(h1, h2) ==
    LET max_len == Max(Len(h1), Len(h2))
        n1 == zfill(h1, max_len)
        n2 == zfill(h2, max_len)
    IN  IF max_len = 0 THEN 0
        ELSE SumSeq([i \in 1..max_len |-> NibbleXorBits(n1[i], n2[i])])

-----------------------------------------------------------------------------
(* group/similarity.py                                                     *)

UNIT == 64

ONE == 64000

T_LINK == 46080

BAND_BELOW == 3200

BAND_ABOVE == 6400

MAX_CANDIDATES == 50

MAX_HAMMING == 16

WEIGHTS == [phash |-> 350, dhash |-> 250, ahash |-> 150, hist |-> 250]

Clamp(lo, hi, x) == Max(lo, Min(hi, x))

\* An intersection that adds up the bins of a alone.
histogram_intersection_of_first(a, b) ==
    IF a = <<>> \/ b = <<>> THEN 0
    ELSE Clamp(0, UNIT, SumSeq([i \in 1..Min(Len(a), Len(b)) |-> a[i]]))

\* zip(a, b) stops at the shorter sequence.
histogram_intersection(a, b) ==
    IF a = <<>> \/ b = <<>> THEN 0
    ELSE Clamp(0, UNIT,
               SumSeq([i \in 1..Min(Len(a), Len(b)) |-> Min(a[i], b[i])]))

\* 1 - distance/64, clamped to [0, 1]; 0 when a hash is missing.
hash_similarity(hash_a, hash_b) ==
    IF hash_a = <<>> \/ hash_b = <<>> THEN 0
    ELSE Clamp(0, UNIT, UNIT - hamming_distance_hex(hash_a, hash_b))

base_similarity(fA, fB) ==
    [ahash |-> hash_similarity(fA.ahash, fB.ahash),
     dhash |-> hash_similarity(fA.dhash, fB.dhash),
     phash |-> hash_similarity(fA.phash, fB.phash),
     hist  |-> histogram_intersection(fA.hsv_histogram, fB.hsv_histogram)]

\* orb_score is None or Some(o), o in units of 1/64.
combine_components(components, orb_score) ==
    LET score == WEIGHTS.phash * components.phash + WEIGHTS.dhash * components.dhash
                 + WEIGHTS.ahash * components.ahash + WEIGHTS.hist * components.hist
        blended == IF orb_score = None THEN score
                   ELSE (8 * score + 2 * 1000 * Clamp(0, UNIT, orb_score[1])) \div 10
    IN  Clamp(0, ONE, blended)

combined_similarity(fA, fB, orb_score) ==
    combine_components(base_similarity(fA, fB), orb_score)

\* A shortlist that keeps one candidate fewer than asked.
shortlist_by_hash_one_short(fA, f_all, max_candidates, max_hamming) ==
    LET ranked == [i \in 1..Len(f_all.order) |->
                     [key |-> IF /\ f_all.order[i] # fA.website
                                 /\ hamming_distance_hex(fA.phash,
                                        f_all.feat[f_all.order[i]].phash) <= max_hamming
                              THEN hamming_distance_hex(fA.phash,
                                        f_all.feat[f_all.order[i]].phash)
                              ELSE -1,
                      website |-> f_all.order[i]]]
        cut == Take(SortStableByKey(SelectSeq(ranked, LAMBDA r : r.key >= 0)),
                    max_candidates - 1)
    IN  [i \in 1..Len(cut) |-> cut[i].website]

\* A shortlist that keeps the nearest candidates whatever their distance.
shortlist_by_hash_any_distance(fA, f_all, max_candidates, max_hamming) ==
    IF max_candidates <= 0 THEN <<>>
    ELSE IF fA.phash = <<>> THEN <<>>
    ELSE
      LET Kept(w) == /\ f_all.feat[w].website # fA.website
                     /\ f_all.feat[w].phash # <<>>
          ranked == [i \in 1..Len(f_all.order) |->
                       [key |-> IF Kept(f_all.order[i])
                                     THEN hamming_distance_hex(fA.phash,
                                                  f_all.feat[f_all.order[i]].phash)
                                     ELSE -1,
                        website |-> f_all.order[i]]]
          kept == SelectSeq(ranked, LAMBDA r : r.key >= 0)
          sorted == SortStableByKey(kept)
          cut == Take(sorted, max_candidates)
      IN  [i \in 1..Len(cut) |-> cut[i].website]

\* f_all is the feature map [order, feat]; the result is a list of keys.
shortlist_by_hash(fA, f_all, max_candidates, max_hamming) ==
    IF max_candidates <= 0 THEN <<>>
    ELSE IF fA.phash = <<>> THEN <<>>
    ELSE
      LET Kept(w) == /\ f_all.feat[w].website # fA.website
                     /\ f_all.feat[w].phash # <<>>
                     /\ hamming_distance_hex(fA.phash, f_all.feat[w].phash) <= max_hamming
          ranked == [i \in 1..Len(f_all.order) |->
                       [key |-> IF Kept(f_all.order[i])
                                     THEN hamming_distance_hex(fA.phash,
                                                  f_all.feat[f_all.order[i]].phash)
                                     ELSE -1,
                        website |-> f_all.order[i]]]
          kept == SelectSeq(ranked, LAMBDA r : r.key >= 0)
          sorted == SortStableByKey(kept)
          cut == Take(sorted, max_candidates)
      IN  [i \in 1..Len(cut) |-> cut[i].website]

\* An anchor that keeps every shortlisted candidate, also those not after it.
AnchorEdges_keeps_earlier(website, features_map, images, orb_score, max_candidates, max_hamming, t_link) ==
    LET feature == features_map.feat[website]
        shortlist == shortlist_by_hash(feature, features_map, max_candidates, max_hamming)
        scored == [i \in 1..Len(shortlist) |->
                     [left |-> website, right |-> shortlist[i],
                      score |-> combined_similarity(feature, features_map.feat[shortlist[i]], None)]]
    IN  SelectSeq(scored, LAMBDA e : e.score >= t_link)

\* An anchor that asks the ORB matcher whenever both images are there.
AnchorEdges_orb_outside_band(website, features_map, images, orb_score, max_candidates, max_hamming, t_link) ==
    LET feature == features_map.feat[website]
        shortlist == shortlist_by_hash(feature, features_map, max_candidates, max_hamming)
        Scored(candidate) ==
            LET components == base_similarity(feature, features_map.feat[candidate])
            IN  IF website \in images /\ candidate \in images
                THEN combine_components(components, Some(orb_score))
                ELSE combine_components(components, None)
        later == SelectSeq(shortlist, LAMBDA c : ~LexLeq(c, website))
        scored == [i \in 1..Len(later) |->
                     [left |-> website, right |-> later[i], score |-> Scored(later[i])]]
    IN  SelectSeq(scored, LAMBDA e : e.score >= t_link)

\* The edges one anchor yields, in shortlist order.  images is the key set of
\* images_map; orb_score is the value orb_keypoints_match returns.
AnchorEdges(website, features_map, images, orb_score, max_candidates, max_hamming, t_link) ==
    LET feature == features_map.feat[website]
        shortlist == shortlist_by_hash(feature, features_map, max_candidates, max_hamming)
        Scored(candidate) ==
            LET components == base_similarity(feature, features_map.feat[candidate])
                score == combine_components(components, None)
            IN  IF /\ t_link - BAND_BELOW <= score
                   /\ score <= t_link + BAND_ABOVE
                   /\ website \in images
                   /\ candidate \in images
                THEN combine_components(components, Some(orb_score))
                ELSE score
        later == SelectSeq(shortlist, LAMBDA c : ~LexLeq(c, website))
        scored == [i \in 1..Len(later) |->
                     [left |-> website, right |-> later[i], score |-> Scored(later[i])]]
    IN  SelectSeq(scored, LAMBDA e : e.score >= t_link)

\* The edges of the anchors websites[lo..hi], anchor after anchor.
RECURSIVE EdgesOfAnchors(_, _, _, _, _, _, _, _, _)
EdgesOfAnchors(websites, lo, hi, features_map, images, orb_score, max_candidates, max_hamming, t_link) ==
    IF lo > hi THEN <<>>
    ELSE IF lo = hi
    THEN AnchorEdges(websites[lo], features_map, images, orb_score,
                     max_candidates, max_hamming, t_link)
    ELSE EdgesOfAnchors(websites, lo, (lo + hi) \div 2, features_map, images, orb_score,
                        max_candidates, max_hamming, t_link)
         \o EdgesOfAnchors(websites, ((lo + hi) \div 2) + 1, hi, features_map, images,
                           orb_score, max_candidates, max_hamming, t_link)

pairwise_scores(features_map, images, orb_score, max_candidates, max_hamming, t_link) ==
    LET websites == SortedKeys(Range(features_map.order))
    IN  EdgesOfAnchors(websites, 1, Len(websites), features_map, images,
                       orb_score, max_candidates, max_hamming, t_link)

-----------------------------------------------------------------------------
(* group/unionfind.py: a UnionFind is [parent, rank, order], order being   *)
(* the insertion order of the _parent dict.                                *)

NewUnionFind == [parent |-> <<>>, rank |-> <<>>, order |-> <<>>]

\* find(item) with path compression: the structure after the call, and the root.
RECURSIVE find(_, _)
find(uf, item) ==
    IF item \notin DOMAIN uf.parent
    THEN [uf |-> [parent |-> (item :> item) @@ uf.parent,
                  rank |-> (item :> 0) @@ uf.rank,
                  order |-> Append(uf.order, item)],
          root |-> item]
    ELSE IF uf.parent[item] # item
    THEN LET r == find(uf, uf.parent[item])
         IN  [uf |-> [r.uf EXCEPT !.parent[item] = r.root], root |-> r.root]
    ELSE [uf |-> uf, root |-> item]

\* A union that links the items themselves instead of their roots.
union_links_items(uf, a, b) ==
    LET u == find(find(uf, a).uf, b).uf
    IN  IF a = b THEN u ELSE [u EXCEPT !.parent[b] = a]

union(uf, a, b) ==
    LET fa == find(uf, a)
        fb == find(fa.uf, b)
        u == fb.uf
        root_a == fa.root
        root_b == fb.root
    IN  IF root_a = root_b THEN u
        ELSE IF u.rank[root_a] < u.rank[root_b]
        THEN [u EXCEPT !.parent[root_a] = root_b]
        ELSE IF u.rank[root_a] > u.rank[root_b]
        THEN [u EXCEPT !.parent[root_b] = root_a]
        ELSE [u EXCEPT !.parent[root_b] = root_a, !.rank[root_a] = @ + 1]

\* An add_all that registers nothing.
add_all_registers_nothing(uf, items) == uf

\* find(item) for the items lo..hi, in order.  Loops over long lists are split
\* in halves, and the first half is compared with the start so that it is
\* evaluated before the second half starts: the evaluation does not nest deeply.
RECURSIVE AddRange(_, _, _, _)
AddRange(uf, items, lo, hi) ==
    IF lo > hi THEN uf
    ELSE IF lo = hi THEN find(uf, items[lo]).uf
    ELSE LET left == AddRange(uf, items, lo, (lo + hi) \div 2)
         IN  IF left = uf THEN AddRange(uf, items, ((lo + hi) \div 2) + 1, hi)
             ELSE AddRange(left, items, ((lo + hi) \div 2) + 1, hi)

add_all(uf, items) == AddRange(uf, items, 1, Len(items))

\* groups(): [uf, roots, members]: the structure after the finds, the roots in
\* the order their buckets were created, and each root's members in _parent order.
GroupsStep(acc, item) ==
    LET f == find(acc.uf, item)
    IN  IF f.root \in DOMAIN acc.members
        THEN [uf |-> f.uf, roots |-> acc.roots,
              members |-> [acc.members EXCEPT ![f.root] = Append(@, item)]]
        ELSE [uf |-> f.uf, roots |-> Append(acc.roots, f.root),
              members |-> (f.root :> <<item>>) @@ acc.members]

RECURSIVE GroupsFrom(_, _, _, _)
GroupsFrom(acc, items, lo, hi) ==
    IF lo > hi THEN acc
    ELSE IF lo = hi THEN GroupsStep(acc, items[lo])
    ELSE LET left == GroupsFrom(acc, items, lo, (lo + hi) \div 2)
         IN  IF left = acc THEN GroupsFrom(acc, items, ((lo + hi) \div 2) + 1, hi)
             ELSE GroupsFrom(left, items, ((lo + hi) \div 2) + 1, hi)

groups(uf) ==
    GroupsFrom([uf |-> uf, roots |-> <<>>, members |-> <<>>], uf.order, 1, Len(uf.order))

-----------------------------------------------------------------------------
(* group/group_and_metrics.py                                              *)

TOP_EDGES == 500

REPORT_FILES == {"groups.json", "pairs_sample.csv", "metrics.json"}

\* The order group_and_report writes them in.
REPORT_ORDER == <<"groups.json", "pairs_sample.csv", "metrics.json">>

\* A write whose OSError is not caught: it ends group_and_report.
write_report_uncaught(acc, file, failing) ==
    IF acc.raised # "" THEN acc
    ELSE IF file \in failing
    THEN [acc EXCEPT !.log = Append(@, file), !.raised = file]
    ELSE [acc EXCEPT !.log = Append(@, file), !.written = @ \cup {file}]

\* try: <write file> except OSError: print(...).  failing are the files
\* whose write raises OSError; nothing runs after an exception that escapes.
write_report(acc, file, failing) ==
    IF acc.raised # "" THEN acc
    ELSE IF file \in failing
    THEN [acc EXCEPT !.log = Append(@, file)]
    ELSE [acc EXCEPT !.log = Append(@, file), !.written = @ \cup {file}]

\* The three writes of group_and_report: the files opened for writing in
\* order, those written, and the file whose exception escaped ("" if none).
write_reports(failing) ==
    LET start == [log |-> <<>>, written |-> {}, raised |-> ""]
        first == write_report(start, REPORT_ORDER[1], failing)
        second == write_report(first, REPORT_ORDER[2], failing)
    IN  write_report(second, REPORT_ORDER[3], failing)

build_similarity_edges(features_map, images, orb_score, t_link) ==
    IF features_map.order = <<>> THEN <<>>
    ELSE pairwise_scores(features_map, images, orb_score,
                         MAX_CANDIDATES, MAX_HAMMING, t_link)

\* uf.union(left, right) for the edges lo..hi, in order.
RECURSIVE LinkRange(_, _, _, _)
LinkRange(uf, edges, lo, hi) ==
    IF lo > hi THEN uf
    ELSE IF lo = hi THEN union(uf, edges[lo].left, edges[lo].right)
    ELSE LET mid == (lo + hi) \div 2
             left == LinkRange(uf, edges, lo, mid)
         IN  IF left = uf THEN LinkRange(uf, edges, mid + 1, hi)
             ELSE LinkRange(left, edges, mid + 1, hi)

LinkGroups(uf, edges) == LinkRange(uf, edges, 1, Len(edges))

\* A sorted_groups that leaves the members of a group in bucket order.
sorted_groups_members_unsorted(groups_map) ==
    LET n == Len(groups_map.roots)
        size(i) == Len(groups_map.members[groups_map.roots[i]])
        pos(i) == 1 + Cardinality({j \in 1..n :
                         \/ size(j) > size(i)
                         \/ (size(j) = size(i)
                             /\ LexLess(groups_map.roots[j], groups_map.roots[i]))})
    IN  [k \in 1..n |->
           LET i == CHOOSE i \in 1..n : pos(i) = k
           IN  [group_id |-> groups_map.roots[i],
                members |-> groups_map.members[groups_map.roots[i]]]]

\* sorted(((root, sorted(members)) ...), key=(-len(members), root)).
sorted_groups(groups_map) ==
    LET n == Len(groups_map.roots)
        size(i) == Len(groups_map.members[groups_map.roots[i]])
        pos(i) == 1 + Cardinality({j \in 1..n :
                         \/ size(j) > size(i)
                         \/ (size(j) = size(i)
                             /\ LexLess(groups_map.roots[j], groups_map.roots[i]))})
    IN  [k \in 1..n |->
           LET i == CHOOSE i \in 1..n : pos(i) = k
           IN  [group_id |-> groups_map.roots[i],
                members |-> SortedKeys(Range(groups_map.members[groups_map.roots[i]]))]]

\* sorted(edges, key=score, reverse=True)[:500]: stable, equal scores keep their order.
top_edges(edges) ==
    Take(SortStableByKey([i \in 1..Len(edges) |->
             [key |-> -edges[i].score, left |-> edges[i].left, right |-> edges[i].right]]),
         TOP_EDGES)

\* f"{score:.6f}": the score in millionths, rounded to the nearest.
format_score(score) == (score * 125 + 4) \div 8

pairs_sample_rows(edges) ==
    LET top == top_edges(edges)
    IN  [i \in 1..Len(top) |->
           [left |-> top[i].left, right |-> top[i].right, score |-> format_score(-top[i].key)]]

MaxOf(S) == IF S = {} THEN 0 ELSE CHOOSE m \in S : \A x \in S : x <= m

\* What the function returns (edges, groups, metrics), the text it hands to each
\* report file, and the union-find it ends with.  Each file is written in a try
\* block of its own: a write that raises OSError leaves the file out, and
\* nothing else changes (see GroupAndReport).
group_and_report(features_map, images, orb_score, total_sites, t_link) ==
    LET edges == build_similarity_edges(features_map, images, orb_score, t_link)
        groups_map == groups(LinkGroups(add_all(NewUnionFind, features_map.order), edges))
        groups_payload == sorted_groups(groups_map)
        extracted == Len(features_map.order)
        metrics == [total |-> total_sites,
                    extracted |-> extracted,
                    coverage |-> IF total_sites # 0
                                 THEN [num |-> extracted, den |-> total_sites]
                                 ELSE [num |-> 0, den |-> 1],
                    pairs |-> Len(edges),
                    groups |-> Len(groups_payload),
                    largest_group |-> MaxOf({Len(groups_payload[i].members) :
                                               i \in 1..Len(groups_payload)}),
                    threshold |-> t_link]
    IN  [edges |-> edges, groups |-> groups_payload, metrics |-> metrics,
         content |-> [f \in REPORT_FILES |->
                        IF f = "groups.json" THEN groups_payload
                        ELSE IF f = "metrics.json" THEN metrics
                        ELSE pairs_sample_rows(edges)],
         uf |-> groups_map.uf]

-----------------------------------------------------------------------------
(* Inputs                                                                  *)

MaxSites == 4

HASH_DIGITS == 16

Rep(d, n) == [i \in 1..n |-> d]

ZEROS == Rep(0, HASH_DIGITS)

ONES == Rep(15, HASH_DIGITS)

LOW16 == Rep(0, HASH_DIGITS - 4) \o Rep(15, 4)

\* Host labels "b", "a.b", "a", "ab", "a-b", "b.a" (character codes), listed
\* out of order on purpose.
WebsitePool ==
    <<  <<98>>, <<97, 46, 98>>, <<97>>, <<97, 98>>, <<97, 45, 98>>, <<98, 46, 97>>  >>

\* The logos a site may carry: a plain one, one 16 pHash bits away, one with the
\* same pHash and an opposite dHash, and an unrelated one (no normalized image).
LogoPool ==
    { [phash |-> ZEROS, dhash |-> ZEROS, ahash |-> ZEROS,
       hsv_histogram |-> <<64, 0, 0>>, normalized_path |-> TRUE],
      [phash |-> LOW16, dhash |-> ZEROS, ahash |-> ZEROS,
       hsv_histogram |-> <<64, 0, 0>>, normalized_path |-> TRUE],
      [phash |-> ZEROS, dhash |-> ONES, ahash |-> ZEROS,
       hsv_histogram |-> <<64, 0, 0>>, normalized_path |-> TRUE],
      [phash |-> ONES, dhash |-> ONES, ahash |-> ONES,
       hsv_histogram |-> <<0, 64, 0>>, normalized_path |-> FALSE] }

OrbPool == {0, 64}

Reverse(s) == [i \in 1..Len(s) |-> s[Len(s) + 1 - i]]

Rotate(s, k) == [i \in 1..Len(s) |-> s[((i + k - 1) % Len(s)) + 1]]

\* The insertion orders tried for n sites: the first n labels of the pool and
\* their reverse, each rotated by 0, 1 or 2 (every order, up to three sites).
InputOrders(n) ==
    IF n = 0 THEN {<<>>}
    ELSE LET base == SubSeq(WebsitePool, 1, n)
         IN  {Rotate(base, k) : k \in 0..Min(n - 1, 2)}
             \cup {Rotate(Reverse(base), k) : k \in 0..Min(n - 1, 2)}

LogoFeatures(website, logo) ==
    [website |-> website, phash |-> logo.phash, dhash |-> logo.dhash,
     ahash |-> logo.ahash, hsv_histogram |-> logo.hsv_histogram,
     normalized_path |-> logo.normalized_path]

FeaturesMap == [order |-> features_order, feat |-> features]

Sites == Range(features_order)

\* cli._load_normalized_images: the sites whose normalized image was opened.
load_normalized_images(features_map) ==
    {w \in Range(features_map.order) : features_map.feat[w].normalized_path}

NoReport == <<>>

\* No run of main is under way.
RunIdle ==
    /\ entries = <<>>
    /\ lazy = FALSE
    /\ cursor = 0
    /\ feature_rows = <<>>
    /\ assets = {}
    /\ exit_code = None
    /\ raised = ""

NoSelection == <<>>

\* No call of select_best is under way.
SelectIdle ==
    /\ candidates = <<>>
    /\ base_url = <<>>
    /\ selected = NoSelection

\* No call of discover_logo_candidates is under way.
DiscoverIdle ==
    /\ page = <<>>
    /\ attr_order = <<>>
    /\ failure = None

\* No call of fetch_html is under way.
FetchIdle ==
    /\ fetch_url = <<>>
    /\ attempts = <<>>
    /\ fetched = None

\* No call of combined_similarity is under way.
SimilarityIdle ==
    /\ pair = <<>>
    /\ orb_given = None
    /\ fused = None

\* No call of shortlist_by_hash is under way.
ShortlistIdle ==
    /\ anchor_key = <<>>
    /\ shortlisted = None

\* No call of score_candidate is under way.
ScoreIdle ==
    /\ score_input = <<>>
    /\ score_output = None

\* No call of normalize_logo is under way.
TrimIdle ==
    /\ trim_input = <<>>
    /\ trim_output = None

\* Nothing was written to the assets directory.
AssetLogIdle ==
    /\ asset_log = <<>>

\* No caller of the shared session or renderer is there.
CallersIdle ==
    /\ caller_pc = <<>>
    /\ calls_left = <<>>
    /\ locks = <<>>
    /\ globals = <<>>
    /\ locals = <<>>
    /\ objects = <<>>

\* No run of main is under way; lazy is the caller's.
RunIdleButLazy ==
    /\ entries = <<>>
    /\ cursor = 0
    /\ feature_rows = <<>>
    /\ assets = {}
    /\ exit_code = None
    /\ raised = ""

-----------------------------------------------------------------------------
(* SpecUF: the UnionFind class as group_and_report drives it, with any     *)
(* sequence of union(left, right), left < right.                           *)

InitUF ==
    /\ pc = "uf_new"
    /\ \E n \in 1..MaxSites :
          features_order \in {SubSeq(WebsitePool, 1, n), Reverse(SubSeq(WebsitePool, 1, n))}
    /\ features = <<>>
    /\ orb = 0
    /\ total = Len(features_order)
    /\ uf_state = NewUnionFind
    /\ applied = {}
    /\ report = NoReport
    /\ written = {}
    /\ write_log = <<>>
    /\ RunIdle
    /\ SelectIdle
    /\ DiscoverIdle
    /\ FetchIdle
    /\ SimilarityIdle
    /\ ShortlistIdle
    /\ ScoreIdle
    /\ TrimIdle
    /\ AssetLogIdle
    /\ CallersIdle

\* uf.add_all(features_map.keys())
UFAddAll ==
    /\ pc = "uf_new"
    /\ uf_state' = add_all(uf_state, features_order)
    /\ pc' = "uf_linking"
    /\ UNCHANGED <<concVars, logVars, trimVars, scoreVars, shortVars, simVars, fetchVars, discVars, selVars, features_order, features, orb, total, applied, report, written, write_log, runVars>>

\* uf.union(left, right) for an edge
UFUnion ==
    /\ pc = "uf_linking"
    /\ \E a, b \in Range(features_order) :
          /\ LexLess(a, b)
          /\ uf_state' = union(uf_state, a, b)
          /\ applied' = applied \cup {<<a, b>>}
    /\ UNCHANGED <<concVars, logVars, trimVars, scoreVars, shortVars, simVars, fetchVars, discVars, selVars, pc, features_order, features, orb, total, report, written, write_log, runVars>>

\* uf.groups(): the finds compress paths
UFGroups ==
    /\ pc = "uf_linking"
    /\ uf_state' = groups(uf_state).uf
    /\ UNCHANGED <<concVars, logVars, trimVars, scoreVars, shortVars, simVars, fetchVars, discVars, selVars, pc, features_order, features, orb, total, applied, report, written, write_log, runVars>>

NextUF == UFAddAll \/ UFUnion \/ UFGroups

SpecUF == InitUF /\ [][NextUF]_vars

-----------------------------------------------------------------------------
(* SpecGroup: group_and_report on a feature map                            *)

InitGroup ==
    /\ pc = "group_ready"
    /\ \E n \in 0..MaxSites : features_order \in InputOrders(n)
    /\ \E logo \in [Range(features_order) -> LogoPool] :
          features = [w \in Range(features_order) |-> LogoFeatures(w, logo[w])]
    /\ orb \in OrbPool
    /\ total = Len(features_order)
    /\ uf_state = NewUnionFind
    /\ applied = {}
    /\ report = NoReport
    /\ written = {}
    /\ write_log = <<>>
    /\ RunIdle
    /\ SelectIdle
    /\ DiscoverIdle
    /\ FetchIdle
    /\ SimilarityIdle
    /\ ShortlistIdle
    /\ ScoreIdle
    /\ TrimIdle
    /\ AssetLogIdle
    /\ CallersIdle

EdgePairs(edges) == {<<edges[i].left, edges[i].right>> : i \in 1..Len(edges)}

\* group_and_report(feature_map, images_map, total_sites, out_dir, t_link=T_LINK);
\* failing are the report files whose write raises OSError.
GroupAndReport ==
    /\ pc = "group_ready"
    /\ report' = group_and_report(FeaturesMap, load_normalized_images(FeaturesMap),
                                  orb, total, T_LINK)
    /\ \E failing \in SUBSET REPORT_FILES :
          /\ write_log' = write_reports(failing).log
          /\ written' = write_reports(failing).written
          /\ pc' = IF write_reports(failing).raised = "" THEN "group_done"
                   ELSE "group_raised"
    /\ uf_state' = report'.uf
    /\ applied' = EdgePairs(report'.edges)
    /\ UNCHANGED <<concVars, logVars, trimVars, scoreVars, shortVars, simVars, fetchVars, discVars, selVars, features_order, features, orb, total, runVars>>

NextGroup == GroupAndReport

SpecGroup == InitGroup /\ [][NextGroup]_vars

-----------------------------------------------------------------------------
(* SpecReport: group_and_report and its report files, on small feature maps *)

MaxReportSites == 3

InitReport ==
    /\ pc = "group_ready"
    /\ \E n \in 0..MaxReportSites : features_order \in InputOrders(n)
    /\ \E logo \in [Range(features_order) -> LogoPool] :
          features = [w \in Range(features_order) |-> LogoFeatures(w, logo[w])]
    /\ orb \in OrbPool
    /\ total = Len(features_order)
    /\ uf_state = NewUnionFind
    /\ applied = {}
    /\ report = NoReport
    /\ written = {}
    /\ write_log = <<>>
    /\ RunIdle
    /\ SelectIdle
    /\ DiscoverIdle
    /\ FetchIdle
    /\ SimilarityIdle
    /\ ShortlistIdle
    /\ ScoreIdle
    /\ TrimIdle
    /\ AssetLogIdle
    /\ CallersIdle

SpecReport == InitReport /\ [][NextGroup]_vars

-----------------------------------------------------------------------------
(* SpecIdentical: group_and_report on many sites that carry the same logo, *)
(* with or without one site that carries an unrelated logo                 *)

MaxIdentical == 52

\* The numbers of same-logo sites tried are the IdenticalSpan largest ones.
IdenticalSpan == 4

\* Host labels "01", "02", ...: two decimal digits.
TwoDigits(i) == <<48 + (i \div 10), 48 + (i % 10)>>

\* Host label "z" of the site with the unrelated logo.
UnrelatedSite == <<122>>

SameLogo == [phash |-> LOW16, dhash |-> ZEROS, ahash |-> ZEROS,
             hsv_histogram |-> <<64, 0, 0>>, normalized_path |-> TRUE]

UnrelatedLogo == [phash |-> ONES, dhash |-> ONES, ahash |-> ONES,
                  hsv_histogram |-> <<0, 64, 0>>, normalized_path |-> FALSE]

IdenticalSites == {w \in Sites : features[w].phash = SameLogo.phash}

InitIdentical ==
    /\ pc = "group_ready"
    /\ \E n \in (MaxIdentical - IdenticalSpan + 1)..MaxIdentical, unrelated \in {<<>>, <<UnrelatedSite>>} :
          LET ascending == [i \in 1..n |-> TwoDigits(i)]
          IN  features_order \in {ascending \o unrelated, unrelated \o Reverse(ascending)}
    /\ features = [w \in Range(features_order) |->
                     LogoFeatures(w, IF w = UnrelatedSite THEN UnrelatedLogo ELSE SameLogo)]
    /\ orb = 0
    /\ total = Len(features_order)
    /\ uf_state = NewUnionFind
    /\ applied = {}
    /\ report = NoReport
    /\ written = {}
    /\ write_log = <<>>
    /\ RunIdle
    /\ SelectIdle
    /\ DiscoverIdle
    /\ FetchIdle
    /\ SimilarityIdle
    /\ ShortlistIdle
    /\ ScoreIdle
    /\ TrimIdle
    /\ AssetLogIdle
    /\ CallersIdle

SpecIdentical == InitIdentical /\ [][NextGroup]_vars

-----------------------------------------------------------------------------
(* cli.py: host labels, asset paths, the feature map                       *)

\* "site", ".orig", ".orig_", ".png", ".preview.png" as character codes.
SITE == <<115, 105, 116, 101>>

DOT_ORIG == <<46, 111, 114, 105, 103>>

DOT_ORIG_ == <<46, 111, 114, 105, 103, 95>>

DOT_PNG == <<46, 112, 110, 103>>

DOT_PREVIEW_PNG == <<46, 112, 114, 101, 118, 105, 101, 119, 46, 112, 110, 103>>

\* str.isalnum() on an ASCII character.
IsAlnum(ch) == ch \in (48..57) \cup (65..90) \cup (97..122)

\* The characters "._-".
LabelPunctuation == {46, 95, 45}

\* str.strip("._-")
RECURSIVE StripLeft(_)
StripLeft(str) ==
    IF str # <<>> /\ Head(str) \in LabelPunctuation THEN StripLeft(Tail(str)) ELSE str

RECURSIVE StripRight(_)
StripRight(str) ==
    IF str # <<>> /\ str[Len(str)] \in LabelPunctuation
    THEN StripRight(SubSeq(str, 1, Len(str) - 1))
    ELSE str

\* url is what urlparse gives: [netloc, path].
safe_host_label(url) ==
    LET host == IF url.netloc # <<>> THEN url.netloc
                ELSE IF url.path # <<>> THEN url.path ELSE SITE
        sanitized == [i \in 1..Len(host) |->
                        IF IsAlnum(host[i]) \/ host[i] \in LabelPunctuation
                        THEN host[i] ELSE 95]
        stripped == StripLeft(StripRight(sanitized))
    IN  IF stripped # <<>> THEN stripped ELSE SITE

\* str(counter) for the counters a run reaches.
Decimal(counter) == <<48 + counter>>

\* The first of <host>.orig<suffix>, <host>.orig_2<suffix>, <host>.orig_3<suffix>,
\* ... that is not in the assets directory.
RECURSIVE FreeAssetName(_, _, _, _)
FreeAssetName(existing, host_label, suffix, counter) ==
    LET base_name == host_label \o DOT_ORIG_ \o Decimal(counter) \o suffix
    IN  IF base_name \in existing
        THEN FreeAssetName(existing, host_label, suffix, counter + 1)
        ELSE base_name

determine_asset_path(existing, host_label, suffix) ==
    IF (host_label \o DOT_ORIG \o suffix) \in existing
    THEN FreeAssetName(existing, host_label, suffix, 2)
    ELSE host_label \o DOT_ORIG \o suffix

\* One write to the assets directory: the entry it is for, what it holds and
\* the file name.
AssetWrite(site, kind, name) == [site |-> site, kind |-> kind, name |-> name]

\* The two files _save_normalized_assets writes.
normalized_asset_names(host_label) ==
    {host_label \o DOT_PNG, host_label \o DOT_PREVIEW_PNG}

\* feature_map[website] = feature for each row with a website: a key keeps the
\* place of its first row and the value of its last one.
build_feature_map(rows) ==
    LET firsts == {i \in 1..Len(rows) :
                     /\ rows[i].website # <<>>
                     /\ \A j \in 1..(i - 1) : rows[j].website # rows[i].website}
        order == [k \in 1..Cardinality(firsts) |->
                    rows[CHOOSE i \in firsts :
                            Cardinality({j \in firsts : j < i}) = k - 1].website]
        last(w) == CHOOSE i \in 1..Len(rows) :
                       /\ rows[i].website = w
                       /\ \A j \in (i + 1)..Len(rows) : rows[j].website # w
    IN  [order |-> order, feat |-> [w \in Range(order) |-> rows[last(w)]]]

-----------------------------------------------------------------------------
(* extract/select_logo.py                                                  *)

MAX_FETCH == 6

\* str.strip(): the ASCII whitespace.
WHITESPACE == {9, 10, 11, 12, 13, 32}

RECURSIVE Strip(_)
Strip(str) ==
    IF str = <<>> THEN str
    ELSE IF Head(str) \in WHITESPACE THEN Strip(Tail(str))
    ELSE IF str[Len(str)] \in WHITESPACE THEN Strip(SubSeq(str, 1, Len(str) - 1))
    ELSE str

StartsWith(str, prefix) ==
    Len(str) >= Len(prefix) /\ SubSeq(str, 1, Len(prefix)) = prefix

\* sub in str
Contains(str, sub) ==
    \E i \in 1..(Len(str) - Len(sub) + 1) : SubSeq(str, i, i + Len(sub) - 1) = sub

\* str.find(ch) + 1: the first position of ch, 0 when absent.
IndexOf(str, ch) ==
    IF \E i \in 1..Len(str) : str[i] = ch
    THEN CHOOSE i \in 1..Len(str) : str[i] = ch /\ \A j \in 1..(i - 1) : str[j] # ch
    ELSE 0

\* str.rfind(ch) + 1
LastIndexOf(str, ch) ==
    IF \E i \in 1..Len(str) : str[i] = ch
    THEN CHOOSE i \in 1..Len(str) : str[i] = ch /\ \A j \in (i + 1)..Len(str) : str[j] # ch
    ELSE 0

\* "data:"
DATA_PREFIX == <<100, 97, 116, 97, 58>>

\* ";base64"
BASE64_MARK == <<59, 98, 97, 115, 101, 54, 52>>

\* urljoin(base, url) for an absolute base and a url that is absolute
\* (scheme://...), root-relative (/...) or relative to the base's directory.
HasScheme(url) ==
    LET colon == IndexOf(url, 58)
        slash == IndexOf(url, 47)
    IN  colon > 1 /\ (slash = 0 \/ colon < slash)

Origin(base) ==
    LET colon == IndexOf(base, 58)
        after == SubSeq(base, colon + 3, Len(base))
        slash == IndexOf(after, 47)
    IN  IF slash = 0 THEN base ELSE SubSeq(base, 1, colon + 1 + slash)

Directory(base) ==
    LET origin == Origin(base)
        path == SubSeq(base, Len(origin) + 1, Len(base))
    IN  IF path = <<>> THEN origin \o <<47>>
        ELSE origin \o SubSeq(path, 1, LastIndexOf(path, 47))

normalize_url(url, base) ==
    IF HasScheme(url) THEN url
    ELSE IF Head(url) = 47 THEN Origin(base) \o url
    ELSE Directory(base) \o url

\* None for a blank src; a data: URI as it is; otherwise the absolute URL.
resolve_candidate_src(src, base) ==
    LET value == Strip(src)
    IN  IF value = <<>> THEN None
        ELSE IF StartsWith(value, DATA_PREFIX) THEN Some(value)
        ELSE Some(normalize_url(value, base))

\* The value of a character of the base64 alphabet.
B64Value(ch) ==
    IF ch \in 65..90 THEN ch - 65
    ELSE IF ch \in 97..122 THEN ch - 71
    ELSE IF ch \in 48..57 THEN ch + 4
    ELSE IF ch = 43 THEN 62
    ELSE IF ch = 47 THEN 63
    ELSE -1

\* base64.b64decode(data, validate=True) for data in whole groups of four
\* characters, padded at the end only: None when it raises.
RECURSIVE B64Groups(_)
B64Groups(data) ==
    IF data = <<>> THEN <<>>
    ELSE LET v == [i \in 1..4 |-> IF data[i] = 61 THEN 0 ELSE B64Value(data[i])]
             n == v[1] * 262144 + v[2] * 4096 + v[3] * 64 + v[4]
             pad == Cardinality({i \in 1..4 : data[i] = 61})
             bytes == <<n \div 65536, (n \div 256) % 256, n % 256>>
         IN  SubSeq(bytes, 1, 3 - pad) \o B64Groups(SubSeq(data, 5, Len(data)))

b64decode(data) ==
    LET n == Len(data)
        pad == Cardinality({i \in 1..n : data[i] = 61})
    IN  IF /\ n % 4 = 0
           /\ pad <= 2
           /\ \A i \in 1..n : IF i > n - pad THEN data[i] = 61 ELSE B64Value(data[i]) >= 0
        THEN Some(B64Groups(data))
        ELSE None

HexValue(ch) ==
    IF ch \in 48..57 THEN ch - 48
    ELSE IF ch \in 65..70 THEN ch - 55
    ELSE IF ch \in 97..102 THEN ch - 87
    ELSE -1

\* urllib.parse.unquote_to_bytes: %XX is one byte, anything else stays.
RECURSIVE unquote_to_bytes(_)
unquote_to_bytes(data) ==
    IF data = <<>> THEN <<>>
    ELSE IF /\ Head(data) = 37
            /\ Len(data) >= 3
            /\ HexValue(data[2]) >= 0
            /\ HexValue(data[3]) >= 0
         THEN <<16 * HexValue(data[2]) + HexValue(data[3])>>
                  \o unquote_to_bytes(SubSeq(data, 4, Len(data)))
         ELSE <<Head(data)>> \o unquote_to_bytes(Tail(data))

decode_data_uri(uri) ==
    LET comma == IndexOf(uri, 44)
        header == SubSeq(uri, 1, comma - 1)
        data == SubSeq(uri, comma + 1, Len(uri))
    IN  IF ~Contains(uri, DATA_PREFIX) \/ comma = 0 THEN None
        ELSE IF Contains(header, BASE64_MARK) THEN b64decode(data)
        ELSE Some(unquote_to_bytes(data))

\* An image file is cut down to what sniff_image_info reads of it: the bytes
\* <<137, width, height, alpha>>; any other bytes are not an image.
IMAGE_MAGIC == 137

compute_aspect_ratio(width, height) ==
    IF width = 0 \/ height = 0 THEN None ELSE Some([num |-> width, den |-> height])

sniff_image_info(image_bytes) ==
    IF Len(image_bytes) = 4 /\ image_bytes[1] = IMAGE_MAGIC
    THEN Some([width |-> image_bytes[2], height |-> image_bytes[3], sized |-> TRUE,
               has_alpha |-> image_bytes[4] = 1,
               aspect_ratio |-> compute_aspect_ratio(image_bytes[2], image_bytes[3])])
    ELSE None

\* _sniff_svg_metadata of an SVG document whose width or height is not
\* given: sized says that width and height are both numbers.
UNSIZED_SVG_INFO ==
    [width |-> 0, height |-> 0, sized |-> FALSE, has_alpha |-> TRUE, aspect_ratio |-> None]

\* A score kept within [0, 1].
score_candidate_clamped(candidate, image_info) ==
    Max(0, Min(1000,
        IF image_info = None THEN candidate.confidence
        ELSE LET info == image_info[1]
                 ratio == info.aspect_ratio
             IN  candidate.confidence
                 + (IF info.has_alpha THEN 50 ELSE 0)
                 + (IF ratio # None /\ 4 * ratio[1].den <= 5 * ratio[1].num
                                    /\ ratio[1].num <= 5 * ratio[1].den
                    THEN 50 ELSE 0)
                 - (IF info.sized /\ Min(info.width, info.height) < 48 THEN 100 ELSE 0)
                 - (IF /\ info.sized
                       /\ \/ (ratio # None /\ ratio[1].num > 6 * ratio[1].den)
                          \/ (info.width > 1024 /\ info.height > 1024 /\ ~info.has_alpha)
                    THEN 150 ELSE 0)))

\* Scores and confidences are per mille.
score_candidate(candidate, image_info) ==
    IF image_info = None THEN candidate.confidence
    ELSE LET info == image_info[1]
             ratio == info.aspect_ratio
         IN  candidate.confidence
             + (IF info.has_alpha THEN 50 ELSE 0)
             + (IF ratio # None /\ 4 * ratio[1].den <= 5 * ratio[1].num
                                /\ ratio[1].num <= 5 * ratio[1].den
                THEN 50 ELSE 0)
             - (IF info.sized /\ Min(info.width, info.height) < 48 THEN 100 ELSE 0)
             - (IF /\ info.sized
                   /\ \/ (ratio # None /\ ratio[1].num > 6 * ratio[1].den)
                      \/ (info.width > 1024 /\ info.height > 1024 /\ ~info.has_alpha)
                THEN 150 ELSE 0)

\* sorted(candidates, key=confidence, reverse=True): stable.
sort_by_confidence(cands) ==
    LET sorted == SortStableByKey([i \in 1..Len(cands) |->
                                      [key |-> -cands[i].confidence, item |-> cands[i]]])
    IN  [i \in 1..Len(cands) |-> sorted[i].item]

\* A variant: a data: URI is requested over HTTP like any other src.
load_candidate_bytes_fetches_data(resolved_src, response) ==
    IF resolved_src = None THEN [bytes |-> None, loads |-> <<>>]
    ELSE [bytes |-> response, loads |-> <<[src |-> resolved_src[1], via |-> "http"]>>]

\* _load_candidate_bytes: what it returns and the load it makes; response is
\* what the server answers to fetch_image_bytes (None: the request failed).
load_candidate_bytes(resolved_src, response) ==
    IF resolved_src = None THEN [bytes |-> None, loads |-> <<>>]
    ELSE IF StartsWith(resolved_src[1], DATA_PREFIX)
    THEN [bytes |-> decode_data_uri(resolved_src[1]),
          loads |-> <<[src |-> resolved_src[1], via |-> "data"]>>]
    ELSE [bytes |-> response, loads |-> <<[src |-> resolved_src[1], via |-> "http"]>>]

\* dict(candidate) with resolved_src set by setdefault.
WithResolvedSrc(candidate, base) ==
    LET resolved == resolve_candidate_src(candidate.src, base)
    IN  IF resolved # None /\ candidate.resolved_src = None
        THEN [candidate EXCEPT !.resolved_src = resolved]
        ELSE candidate

\* A variant: a later candidate of equal score replaces the earlier one.
EagerStep_prefers_later(acc, candidate, index, base, response) ==
    LET candidate_copy == WithResolvedSrc(candidate, base)
        loaded == IF index < MAX_FETCH
                  THEN load_candidate_bytes(resolve_candidate_src(candidate.src, base), response)
                  ELSE [bytes |-> None, loads |-> <<>>]
        has_bytes == loaded.bytes # None /\ loaded.bytes[1] # <<>>
        image_info == IF has_bytes THEN sniff_image_info(loaded.bytes[1]) ELSE None
        score == score_candidate(candidate_copy, image_info)
        scored == [candidate_copy EXCEPT
                      !.image_bytes = IF has_bytes THEN loaded.bytes ELSE None,
                      !.image_info = image_info,
                      !.score = Some(score)]
        new_fallback == acc.fallback_best = None \/ score >= acc.fallback_best[1].score[1]
        new_with_bytes == has_bytes /\ (\/ acc.best_with_bytes = None
                                         \/ score >= acc.best_with_bytes[1].score[1])
    IN  [fallback_best |-> IF new_fallback THEN Some(scored) ELSE acc.fallback_best,
         best_with_bytes |-> IF new_with_bytes THEN Some(scored) ELSE acc.best_with_bytes,
         loads |-> acc.loads \o loaded.loads,
         scored |-> Append(acc.scored, scored)]

\* One turn of the eager loop; index counts from 0 as enumerate does.
EagerStep(acc, candidate, index, base, response) ==
    LET candidate_copy == WithResolvedSrc(candidate, base)
        loaded == IF index < MAX_FETCH
                  THEN load_candidate_bytes(resolve_candidate_src(candidate.src, base), response)
                  ELSE [bytes |-> None, loads |-> <<>>]
        has_bytes == loaded.bytes # None /\ loaded.bytes[1] # <<>>
        image_info == IF has_bytes THEN sniff_image_info(loaded.bytes[1]) ELSE None
        score == score_candidate(candidate_copy, image_info)
        scored == [candidate_copy EXCEPT
                      !.image_bytes = IF has_bytes THEN loaded.bytes ELSE None,
                      !.image_info = image_info,
                      !.score = Some(score)]
        new_fallback == acc.fallback_best = None \/ score > acc.fallback_best[1].score[1]
        new_with_bytes == has_bytes /\ (\/ acc.best_with_bytes = None
                                         \/ score > acc.best_with_bytes[1].score[1])
    IN  [fallback_best |-> IF new_fallback THEN Some(scored) ELSE acc.fallback_best,
         best_with_bytes |-> IF new_with_bytes THEN Some(scored) ELSE acc.best_with_bytes,
         loads |-> acc.loads \o loaded.loads,
         scored |-> Append(acc.scored, scored)]

RECURSIVE EagerLoop(_, _, _, _, _)
EagerLoop(acc, ordered, index, base, responses) ==
    IF index >= Len(ordered) THEN acc
    ELSE EagerLoop(EagerStep(acc, ordered[index + 1], index, base,
                             IF index < MAX_FETCH THEN responses[index + 1] ELSE None),
                   ordered, index + 1, base, responses)

\* A variant: the lazy flag is ignored.
select_best_always_loads(cands, base, lazy_flag, responses) ==
    IF cands = <<>> THEN [best |-> None, loads |-> <<>>, scored |-> <<>>]
    ELSE LET done == EagerLoop([fallback_best |-> None, best_with_bytes |-> None,
                                loads |-> <<>>, scored |-> <<>>],
                               sort_by_confidence(cands), 0, base, responses)
         IN  [best |-> IF done.best_with_bytes # None THEN done.best_with_bytes
                       ELSE done.fallback_best,
              loads |-> done.loads, scored |-> done.scored]

\* What select_best returns, the byte loads it made in order, and the scored
\* copies of the candidates in the order the loop took them.
select_best(cands, base, lazy_flag, responses) ==
    IF cands = <<>> THEN [best |-> None, loads |-> <<>>, scored |-> <<>>]
    ELSE LET ordered == sort_by_confidence(cands)
         IN  IF lazy_flag
             THEN [best |-> Some(WithResolvedSrc(ordered[1], base)), loads |-> <<>>,
                   scored |-> <<>>]
             ELSE LET done == EagerLoop([fallback_best |-> None, best_with_bytes |-> None,
                                         loads |-> <<>>, scored |-> <<>>],
                                        ordered, 0, base, responses)
                  IN  [best |-> IF done.best_with_bytes # None THEN done.best_with_bytes
                                ELSE done.fallback_best,
                       loads |-> done.loads, scored |-> done.scored]

-----------------------------------------------------------------------------
(* SpecSelect: one call of select_best                                     *)

MaxListed == 7

\* "https://a/" and "https://b/x"
BaseUrlPool ==
    { <<104, 116, 116, 112, 115, 58, 47, 47, 97, 47>>,
      <<104, 116, 116, 112, 115, 58, 47, 47, 98, 47, 120>> }

\* "https://a/" followed by a file name.
OnHostA(name) == <<104, 116, 116, 112, 115, 58, 47, 47, 97, 47>> \o name

\* "data:;base64,iUBAAQ==": the image <<137, 64, 64, 1>> inline.
INLINE_IMAGE ==
    DATA_PREFIX \o BASE64_MARK \o <<44, 105, 85, 66, 65, 65, 81, 61, 61>>

\* A candidate as discover_logo_candidates makes it (_build_candidate): src is an
\* absolute URL or a data: URI, confidence is the one of its source.
Candidate(src, source, confidence) ==
    [src |-> src, source |-> source, confidence |-> confidence,
     resolved_src |-> None, image_bytes |-> None, image_info |-> None, score |-> None]

\* Candidates with distinct src: two common paths, the two social images, the
\* favicon, the touch icon, an inline header image and the JSON-LD logo.
CandidatePool ==
    << Candidate(OnHostA(<<49>>), "common_path", 650),
       Candidate(OnHostA(<<50>>), "common_path", 650),
       Candidate(OnHostA(<<51>>), "og_image", 600),
       Candidate(OnHostA(<<52>>), "twitter_image", 600),
       Candidate(OnHostA(<<53>>), "icon", 550),
       Candidate(OnHostA(<<54>>), "apple_touch", 700),
       Candidate(INLINE_IMAGE, "header_img", 800),
       Candidate(OnHostA(<<56>>), "org_logo", 950) >>

\* The lists tried for n candidates: the first n of the pool and their reverse,
\* each rotated by 0, 1 or 2.
CandidateLists(n) ==
    IF n = 0 THEN {<<>>}
    ELSE LET base == SubSeq(CandidatePool, 1, Min(n, Len(CandidatePool)))
         IN  {Rotate(base, k) : k \in 0..Min(n - 1, 2)}
             \cup {Rotate(Reverse(base), k) : k \in 0..Min(n - 1, 2)}

\* What a server may answer: nothing, a small square image with alpha, a large
\* opaque image.
ResponsePool == {None, Some(<<137, 64, 64, 1>>), Some(<<137, 2000, 2000, 0>>)}

InitSelect ==
    /\ pc = "select_start"
    /\ \E n \in 0..MaxListed : candidates \in CandidateLists(n)
    /\ base_url \in BaseUrlPool
    /\ lazy \in BOOLEAN
    /\ selected = NoSelection
    /\ DiscoverIdle
    /\ FetchIdle
    /\ SimilarityIdle
    /\ ShortlistIdle
    /\ entries = <<>>
    /\ cursor = 0
    /\ feature_rows = <<>>
    /\ assets = {}
    /\ exit_code = None
    /\ raised = ""
    /\ features_order = <<>>
    /\ features = <<>>
    /\ orb = 0
    /\ total = 0
    /\ uf_state = NewUnionFind
    /\ applied = {}
    /\ report = NoReport
    /\ written = {}
    /\ write_log = <<>>
    /\ ScoreIdle
    /\ TrimIdle
    /\ AssetLogIdle
    /\ CallersIdle

\* best = select_best(candidates, base_url, lazy=lazy)
SelectBest ==
    /\ pc = "select_start"
    /\ \E responses \in [1..Min(Len(candidates), MAX_FETCH) -> ResponsePool] :
          selected' = select_best(candidates, base_url, lazy, responses)
    /\ pc' = "select_done"
    /\ UNCHANGED <<concVars, logVars, trimVars, scoreVars, shortVars, simVars, fetchVars, discVars, groupVars, runVars, candidates, base_url>>

NextSelect == SelectBest

SpecSelect == InitSelect /\ [][NextSelect]_vars

-----------------------------------------------------------------------------
(* crawl/discover_candidates.py                                            *)

\* str.lower() on ASCII.
Lower(str) == [i \in 1..Len(str) |-> IF str[i] \in 65..90 THEN str[i] + 32 ELSE str[i]]

EndsWith(str, suffix) ==
    Len(str) >= Len(suffix)
        /\ SubSeq(str, Len(str) - Len(suffix) + 1, Len(str)) = suffix

\* str.split(ch, 1)[0]
Before(str, ch) == IF IndexOf(str, ch) = 0 THEN str ELSE SubSeq(str, 1, IndexOf(str, ch) - 1)

\* str.rsplit(ch, 1)[-1]
AfterLast(str, ch) == SubSeq(str, LastIndexOf(str, ch) + 1, Len(str))

\* urlparse(url).scheme and .path, for a url without parameters: the scheme is
\* what precedes the first ":" when no "/" comes before it, the path is what
\* follows the host (or the whole of a url without scheme) up to "?" or "#".
UrlScheme(url) == IF HasScheme(url) THEN Lower(SubSeq(url, 1, IndexOf(url, 58) - 1)) ELSE <<>>

UrlPath(url) ==
    LET rest == IF HasScheme(url) THEN SubSeq(url, Len(Origin(url)) + 1, Len(url)) ELSE url
    IN  Before(Before(rest, 63), 35)

CONFIDENCE_SCORES ==
    [org_logo |-> 950, apple_touch |-> 700, icon |-> 550, og_image |-> 600,
     twitter_image |-> 600, header_img |-> 800, common_path |-> 650, css_bg |-> 600]

\* The confidence of a logo image outside header and nav: 0.8 - 0.05.
OUTSIDE_HEADER_PENALTY == 50

LOGO_FILENAME_EXTS ==
    << <<46, 115, 118, 103>>, <<46, 112, 110, 103>>, <<46, 106, 112, 103>>, <<46, 106, 112, 101, 103>>, <<46, 119, 101, 98, 112>>, <<46, 105, 99, 111>>, <<46, 103, 105, 102>> >>  \* ".svg", ".png", ".jpg", ".jpeg", ".webp", ".ico", ".gif"

UNLIKELY_FILENAME_WORDS ==
    { <<104, 101, 114, 111>>, <<98, 97, 110, 110, 101, 114>>, <<112, 108, 97, 99, 101, 104, 111, 108, 100, 101, 114>>, <<104, 101, 97, 100, 101, 114>>, <<99, 111, 118, 101, 114>>,  \* "hero", "banner", "placeholder", "header", "cover"
      <<98, 97, 99, 107, 103, 114, 111, 117, 110, 100>>, <<115, 108, 105, 100, 101, 114>> }  \* "background", "slider"

LOGO_KEYWORDS == { <<108, 111, 103, 111>>, <<98, 114, 97, 110, 100>>, <<109, 97, 114, 107>> }  \* "logo", "brand", "mark"

FILENAME_KEYWORDS == { <<108, 111, 103, 111>>, <<98, 114, 97, 110, 100>>, <<105, 99, 111, 110>>, <<109, 97, 114, 107>>, <<102, 97, 118, 105, 99, 111, 110>> }  \* "logo", "brand", "icon", "mark", "favicon"

COMMON_PATH_EXTS == << <<115, 118, 103>>, <<112, 110, 103>>, <<106, 112, 103>>, <<106, 112, 101, 103>>, <<119, 101, 98, 112>> >>  \* "svg", "png", "jpg", "jpeg", "webp"

COMMON_PATH_ROOTS == [i \in 1..Len(COMMON_PATH_EXTS) |-> <<47, 108, 111, 103, 111, 46>> \o COMMON_PATH_EXTS[i]]  \* "/logo."

COMMON_PATH_PREFIXES == << <<47, 97, 115, 115, 101, 116, 115, 47, 108, 111, 103, 111>>, <<47, 115, 116, 97, 116, 105, 99, 47, 108, 111, 103, 111>> >>  \* "/assets/logo", "/static/logo"

COMMON_EXTRA_PATHS == << <<47, 102, 97, 118, 105, 99, 111, 110, 46, 115, 118, 103>> >>  \* "/favicon.svg"

\* prefix.ext for every prefix, then every ext.
PrefixedCommonPaths ==
    [k \in 1..(Len(COMMON_PATH_PREFIXES) * Len(COMMON_PATH_EXTS)) |->
        COMMON_PATH_PREFIXES[((k - 1) \div Len(COMMON_PATH_EXTS)) + 1]
            \o <<46>> \o COMMON_PATH_EXTS[((k - 1) % Len(COMMON_PATH_EXTS)) + 1]]

is_plausible_logo_filename(path) ==
    LET sanitized == Before(Before(path, 63), 35)
        filename == AfterLast(sanitized, 47)
        lower == Lower(filename)
        ext == <<46>> \o AfterLast(lower, 46)
    IN  IF path = <<>> \/ sanitized = <<>> \/ filename = <<>> THEN TRUE
        ELSE IF \E word \in UNLIKELY_FILENAME_WORDS : Contains(lower, word) THEN FALSE
        ELSE IF IndexOf(lower, 46) # 0 /\ ext \notin Range(LOGO_FILENAME_EXTS) THEN FALSE
        ELSE IF \E key \in FILENAME_KEYWORDS : Contains(lower, key) THEN TRUE
        ELSE \E e \in Range(LOGO_FILENAME_EXTS) : EndsWith(lower, e)

\* A filter that looks at the scheme only.
is_valid_candidate_src_any_path(src) ==
    IF StartsWith(src, DATA_PREFIX) THEN TRUE
    ELSE UrlScheme(src) = <<>> \/ UrlScheme(src) \in { <<104, 116, 116, 112>>, <<104, 116, 116, 112, 115>> }  \* "http", "https"

is_valid_candidate_src(src) ==
    IF StartsWith(src, DATA_PREFIX) THEN TRUE
    ELSE IF UrlScheme(src) # <<>> /\ UrlScheme(src) \notin { <<104, 116, 116, 112>>, <<104, 116, 116, 112, 115>> } THEN FALSE  \* "http", "https"
    ELSE is_plausible_logo_filename(UrlPath(src))

make_absolute(raw_url, base) ==
    LET candidate == Strip(raw_url)
    IN  IF candidate = <<>> THEN None
        ELSE IF StartsWith(candidate, DATA_PREFIX) THEN Some(candidate)
        ELSE Some(normalize_url(candidate, base))

\* _build_candidate, with the keys select_best adds left unset.
build_candidate(src, source, confidence) ==
    [src |-> src, source |-> source, confidence |-> confidence,
     resolved_src |-> None, image_bytes |-> None, image_info |-> None, score |-> None]

\* An element of the page is [tag, label, in_header, url]: label is the type
\* of a script, the rel of a link, the property of a meta, the class of an img;
\* url is the logo of a JSON-LD script, the href of a link or a, the content of
\* a meta, the src of an img.  What an extractor makes of an element is a
\* source and a confidence, or None.
jsonld_source(element) ==
    IF element.tag = "script" /\ Contains(Lower(element.label), <<108, 100, 43, 106, 115, 111, 110>>)  \* "ld+json"
    THEN Some([source |-> "org_logo", confidence |-> CONFIDENCE_SCORES.org_logo])
    ELSE None

link_icon_source(element) ==
    LET rel == Lower(element.label)
    IN  IF element.tag # "link" \/ rel = <<>> THEN None
        ELSE IF Contains(rel, <<97, 112, 112, 108, 101, 45, 116, 111, 117, 99, 104, 45, 105, 99, 111, 110>>)  \* "apple-touch-icon"
        THEN Some([source |-> "apple_touch", confidence |-> CONFIDENCE_SCORES.apple_touch])
        ELSE IF rel = <<105, 99, 111, 110>> \/ EndsWith(rel, <<105, 99, 111, 110>>) \/ Contains(rel, <<109, 97, 115, 107, 45, 105, 99, 111, 110>>)  \* "icon", "icon", "mask-icon"
        THEN Some([source |-> "icon", confidence |-> CONFIDENCE_SCORES.icon])
        ELSE None

meta_social_source(element) ==
    LET key == Lower(element.label)
    IN  IF element.tag # "meta" THEN None
        ELSE IF key = <<111, 103, 58, 105, 109, 97, 103, 101>>  \* "og:image"
        THEN Some([source |-> "og_image", confidence |-> CONFIDENCE_SCORES.og_image])
        ELSE IF key \in { <<116, 119, 105, 116, 116, 101, 114, 58, 105, 109, 97, 103, 101>>, <<116, 119, 105, 116, 116, 101, 114, 58, 105, 109, 97, 103, 101, 58, 115, 114, 99>> }  \* "twitter:image", "twitter:image:src"
        THEN Some([source |-> "twitter_image", confidence |-> CONFIDENCE_SCORES.twitter_image])
        ELSE None

logo_image_source(element) ==
    IF /\ element.tag = "img"
       /\ \E keyword \in LOGO_KEYWORDS : Contains(Lower(Strip(element.label)), keyword)
    THEN Some([source |-> "header_img",
               confidence |-> IF element.in_header THEN CONFIDENCE_SCORES.header_img
                              ELSE Max(0, CONFIDENCE_SCORES.header_img
                                             - OUTSIDE_HEADER_PENALTY)])
    ELSE None

SourceOf(extractor, element) ==
    IF extractor = "jsonld" THEN jsonld_source(element)
    ELSE IF extractor = "link" THEN link_icon_source(element)
    ELSE IF extractor = "meta" THEN meta_social_source(element)
    ELSE logo_image_source(element)

\* _extract_jsonld_logos, _extract_link_icons, _extract_meta_social_images and
\* _extract_logo_images: the elements in document order, each giving a
\* candidate when the extractor takes it and its url is a valid candidate src.
RECURSIVE ExtractFromElements(_, _, _)
ExtractFromElements(extractor, elements, base) ==
    IF elements = <<>> THEN <<>>
    ELSE LET element == Head(elements)
             found == SourceOf(extractor, element)
             absolute == make_absolute(element.url, base)
             rest == ExtractFromElements(extractor, Tail(elements), base)
         IN  IF found = None \/ absolute = None THEN rest
             ELSE IF ~is_valid_candidate_src(absolute[1]) THEN rest
             ELSE <<build_candidate(absolute[1], found[1].source, found[1].confidence)>>
                      \o rest

\* _collect_attribute_urls: the string attribute values of all tags, a set.
collect_attribute_urls(elements) ==
    {elements[i].label : i \in 1..Len(elements)}
        \cup {elements[i].url : i \in {j \in 1..Len(elements) : elements[j].tag # "script"}}

\* The host part of a url, what follows "//" up to "/", "?" or "#".
NetlocOf(url) ==
    LET rest == IF HasScheme(url) THEN SubSeq(url, IndexOf(url, 58) + 1, Len(url)) ELSE url
    IN  IF StartsWith(rest, <<47, 47>>)
        THEN Before(Before(Before(SubSeq(rest, 3, Len(rest)), 47), 63), 35)
        ELSE <<>>

\* urlparse(value) raises ValueError("Invalid IPv6 URL"): one of "[" and "]"
\* is in the host part and the other is not.
urlparse_raises(url) == (91 \in Range(NetlocOf(url))) # (93 \in Range(NetlocOf(url)))

\* _extract_common_path_candidates raises on the page: _matches_common_path
\* parses every attribute value.
common_path_raises(elements) ==
    \E value \in collect_attribute_urls(elements) : urlparse_raises(value)

matches_common_path(value) ==
    LET parsed_path == UrlPath(value)
        path == Lower(Before(Before(IF parsed_path # <<>> THEN parsed_path ELSE value, 63), 35))
    IN  /\ path # <<>>
        /\ path \in Range(COMMON_EXTRA_PATHS) \cup Range(COMMON_PATH_ROOTS)
                      \cup Range(PrefixedCommonPaths)

\* Drops every element that occurred earlier in the sequence.
RECURSIVE Distinct(_)
Distinct(s) ==
    IF s = <<>> THEN <<>>
    ELSE LET front == Distinct(SubSeq(s, 1, Len(s) - 1))
         IN  IF s[Len(s)] \in Range(front) THEN front ELSE Append(front, s[Len(s)])

\* The absolute urls of a sequence of raw urls, those that have none left out.
RECURSIVE AbsoluteOf(_, _)
AbsoluteOf(raw_urls, base) ==
    IF raw_urls = <<>> THEN <<>>
    ELSE (IF make_absolute(Head(raw_urls), base) = None THEN <<>>
          ELSE make_absolute(Head(raw_urls), base))
         \o AbsoluteOf(Tail(raw_urls), base)

generate_common_paths(base) ==
    Distinct(AbsoluteOf(COMMON_PATH_ROOTS \o PrefixedCommonPaths \o COMMON_EXTRA_PATHS, base))

\* The srcs the first loop of _extract_common_path_candidates yields, for the
\* attribute values in the order the set gives them.
RECURSIVE CommonPathsFromAttributes(_, _)
CommonPathsFromAttributes(values, base) ==
    IF values = <<>> THEN <<>>
    ELSE LET absolute == make_absolute(Head(values), base)
             rest == CommonPathsFromAttributes(Tail(values), base)
         IN  IF ~matches_common_path(Head(values)) \/ absolute = None THEN rest
             ELSE IF ~is_valid_candidate_src(absolute[1]) THEN rest
             ELSE absolute \o rest

extract_common_path_candidates(values, base) ==
    LET srcs == Distinct(CommonPathsFromAttributes(values, base) \o generate_common_paths(base))
    IN  [i \in 1..Len(srcs) |->
            build_candidate(srcs[i], "common_path", CONFIDENCE_SCORES.common_path)]

EXTRACTORS == <<"jsonld", "link", "meta", "img", "common_path", "css_bg">>

\* What the extractor yields when nothing raises.
ExtractorOutput(extractor, elements, base, values) ==
    IF extractor = "common_path" THEN extract_common_path_candidates(values, base)
    ELSE IF extractor = "css_bg" THEN <<>>
    ELSE ExtractFromElements(extractor, elements, base)

\* The first candidate of each src, in order.
RECURSIVE FirstOfEachSrc(_)
FirstOfEachSrc(cands) ==
    IF cands = <<>> THEN <<>>
    ELSE LET front == FirstOfEachSrc(SubSeq(cands, 1, Len(cands) - 1))
             last == cands[Len(cands)]
         IN  IF \E i \in 1..Len(front) : front[i].src = last.src THEN front
             ELSE Append(front, last)

\* What the loop over the extractors collects from extractor k on; raising is
\* None, or the extractor that raises and the number of candidates it yields
\* before it does.
RECURSIVE CollectFrom(_, _, _, _, _)
CollectFrom(k, elements, base, values, raising) ==
    IF k > Len(EXTRACTORS) THEN <<>>
    ELSE LET output == ExtractorOutput(EXTRACTORS[k], elements, base, values)
             yielded == IF raising # None /\ raising[1].extractor = k
                        THEN Take(output, raising[1].after)
                        ELSE output
         IN  yielded \o CollectFrom(k + 1, elements, base, values, raising)

\* A loop over the extractors that the exception of an extractor ends.
discover_logo_candidates_stops_at_failure(elements, base, values, raising) ==
    FirstOfEachSrc(
        IF raising = None THEN CollectFrom(1, elements, base, values, raising)
        ELSE LET k == raising[1].extractor
                 before == CollectFrom(1, elements, base, values, None)
                 after == CollectFrom(k, elements, base, values, None)
             IN  SubSeq(before, 1, Len(before) - Len(after))
                     \o Take(ExtractorOutput(EXTRACTORS[k], elements, base, values),
                             raising[1].after))

\* discover_logo_candidates for a page of elements; values is the order in
\* which the set of attribute values is iterated.
discover_logo_candidates(elements, base, values, raising) ==
    FirstOfEachSrc(CollectFrom(1, elements, base, values, raising))

-----------------------------------------------------------------------------
(* SpecDiscover: discover_logo_candidates on a page, then select_best      *)

MaxElements == 3

Element(tag, label, in_header, url) ==
    [tag |-> tag, label |-> label, in_header |-> in_header, url |-> url]

\* The elements a page is made of.
ElementList ==
    << Element("script", <<97, 112, 112, 108, 105, 99, 97, 116, 105, 111, 110, 47, 108, 100, 43, 106, 115, 111, 110>>, FALSE, <<104, 116, 116, 112, 115, 58, 47, 47, 97, 47, 98, 114, 97, 110, 100, 46, 112, 110, 103>>),  \* "application/ld+json", "https://a/brand.png"
      Element("link", <<105, 99, 111, 110>>, FALSE, <<47, 102, 97, 118, 105, 99, 111, 110, 46, 105, 99, 111>>),  \* "icon", "/favicon.ico"
      Element("link", <<97, 112, 112, 108, 101, 45, 116, 111, 117, 99, 104, 45, 105, 99, 111, 110>>, FALSE, <<47, 102, 97, 118, 105, 99, 111, 110, 46, 105, 99, 111>>),  \* "apple-touch-icon", "/favicon.ico"
      Element("meta", <<111, 103, 58, 105, 109, 97, 103, 101>>, FALSE, <<104, 116, 116, 112, 115, 58, 47, 47, 97, 47, 104, 101, 114, 111, 45, 98, 97, 110, 110, 101, 114, 46, 106, 112, 103>>),  \* "og:image", "https://a/hero-banner.jpg"
      Element("meta", <<116, 119, 105, 116, 116, 101, 114, 58, 105, 109, 97, 103, 101>>, FALSE, <<47, 108, 111, 103, 111, 46, 112, 110, 103>>),  \* "twitter:image", "/logo.png"
      Element("img", <<115, 105, 116, 101, 45, 108, 111, 103, 111>>, TRUE, <<47, 108, 111, 103, 111, 46, 112, 110, 103>>),  \* "site-logo", "/logo.png"
      Element("a", <<>>, FALSE, <<47, 108, 111, 103, 111, 46, 115, 118, 103>>),  \* "/logo.svg"
      Element("a", <<>>, FALSE, <<47, 97, 115, 115, 101, 116, 115, 47, 108, 111, 103, 111, 46, 112, 110, 103>>) >>  \* "/assets/logo.png"

ElementPool == Range(ElementList)

\* The elements of ElementList at the positions in I from k on, in that order.
RECURSIVE PickFrom(_, _)
PickFrom(I, k) ==
    IF k > Len(ElementList) THEN <<>>
    ELSE (IF k \in I THEN <<ElementList[k]>> ELSE <<>>) \o PickFrom(I, k + 1)

\* The documents of n elements: n elements of the list, in its order or in
\* the reverse order.
Documents(n) ==
    UNION {{PickFrom(I, 1), Reverse(PickFrom(I, 1))} :
              I \in {J \in SUBSET (1..Len(ElementList)) : Cardinality(J) = n}}

\* The sequences of n distinct elements of S.
RECURSIVE DistinctSeqs(_, _)
DistinctSeqs(S, n) ==
    IF n = 0 THEN {<<>>}
    ELSE UNION {{Append(s, x) : x \in S \ Range(s)} : s \in DistinctSeqs(S, n - 1)}

\* The page of scenario 5: a favicon link and an og:image of a hero banner.
FaviconAndHeroPage ==
    << Element("link", <<105, 99, 111, 110>>, FALSE, <<47, 102, 97, 118, 105, 99, 111, 110, 46, 105, 99, 111>>),  \* "icon", "/favicon.ico"
       Element("meta", <<111, 103, 58, 105, 109, 97, 103, 101>>, FALSE, <<104, 116, 116, 112, 115, 58, 47, 47, 97, 47, 104, 101, 114, 111, 45, 98, 97, 110, 110, 101, 114, 46, 106, 112, 103>>) >>  \* "og:image", "https://a/hero-banner.jpg"

\* The attribute values that match a common path; the others change nothing
\* in _extract_common_path_candidates wherever the set puts them.
CommonPathValues(elements) == {v \in collect_attribute_urls(elements) : matches_common_path(v)}

\* What may raise: nothing, or one extractor after 0 or 1 candidates.
FailurePool ==
    {None} \cup {Some([extractor |-> k, after |-> n]) : k \in 1..Len(EXTRACTORS), n \in 0..1}

InitDiscover ==
    /\ pc = "discover_start"
    /\ \E n \in 0..MaxElements : page \in Documents(n)
    /\ base_url = <<104, 116, 116, 112, 115, 58, 47, 47, 97, 47>>  \* "https://a/"
    /\ lazy \in BOOLEAN
    /\ attr_order = <<>>
    /\ failure = None
    /\ candidates = <<>>
    /\ selected = NoSelection
    /\ RunIdleButLazy
    /\ FetchIdle
    /\ SimilarityIdle
    /\ ShortlistIdle
    /\ features_order = <<>>
    /\ features = <<>>
    /\ orb = 0
    /\ total = 0
    /\ uf_state = NewUnionFind
    /\ applied = {}
    /\ report = NoReport
    /\ written = {}
    /\ write_log = <<>>
    /\ ScoreIdle
    /\ TrimIdle
    /\ AssetLogIdle
    /\ CallersIdle

\* candidates = discover_logo_candidates(html, base_url) with the failures
\* given; an extractor that raises does so after candidates it does yield,
\* and the common-path extractor that raises on an attribute value does so
\* before it generates the common paths.
DiscoverWith(failures) ==
    /\ pc = "discover_start"
    /\ \E values \in DistinctSeqs(CommonPathValues(page), Cardinality(CommonPathValues(page))),
          raising \in failures :
          /\ raising # None =>
                raising[1].after <= Len(ExtractorOutput(EXTRACTORS[raising[1].extractor],
                                                        page, base_url, values))
          /\ (raising # None /\ common_path_raises(page)) =>
                raising[1].after <= Len(CommonPathsFromAttributes(values, base_url))
          /\ attr_order' = values
          /\ failure' = raising
          /\ candidates' = discover_logo_candidates(page, base_url, values, raising)
    /\ pc' = "discovered"
    /\ UNCHANGED <<concVars, logVars, trimVars, scoreVars, shortVars, simVars, fetchVars, groupVars, runVars, page, base_url, selected>>

\* best = select_best(candidates, base_url, lazy=lazy); the servers answer
\* every request alike, or the first or the last request only.
SelectDiscovered ==
    /\ pc = "discovered"
    /\ \E response \in (IF lazy THEN {None} ELSE ResponsePool),
          only \in (IF lazy THEN {0} ELSE {0, 1, Min(Len(candidates), MAX_FETCH)}) :
          selected' = select_best(candidates, base_url, lazy,
                         [i \in 1..Min(Len(candidates), MAX_FETCH) |->
                             IF only = 0 \/ i = only THEN response ELSE None])
    /\ pc' = "selected"
    /\ UNCHANGED <<concVars, logVars, trimVars, scoreVars, shortVars, simVars, fetchVars, groupVars, runVars, discVars, candidates, base_url>>

\* An extractor raises for whatever reason.
Discover == DiscoverWith(FailurePool)

\* What raises on the page itself: the common-path extractor, when urlparse
\* rejects an attribute value, and nothing else.
PageFailures ==
    IF common_path_raises(page)
    THEN {Some([extractor |-> 5, after |-> n]) : n \in 0..1}
    ELSE {None}

DiscoverPage == DiscoverWith(PageFailures)

NextDiscover == Discover \/ SelectDiscovered

SpecDiscover == InitDiscover /\ [][NextDiscover]_vars

-----------------------------------------------------------------------------
(* crawl/fetch.py                                                          *)

\* The classes an exception is an instance of: requests.exceptions and the
\* module's own RetryableHTTPStatusError.
ExceptionBases ==
    [ RetryableHTTPStatusError |-> {"RetryableHTTPStatusError", "Exception"},
      Timeout          |-> {"Timeout", "RequestException", "Exception"},
      ConnectionError  |-> {"ConnectionError", "RequestException", "Exception"},
      ConnectTimeout   |-> {"ConnectTimeout", "ConnectionError", "Timeout",
                            "RequestException", "Exception"},
      TooManyRedirects |-> {"TooManyRedirects", "RequestException", "Exception"},
      MissingSchema    |-> {"MissingSchema", "RequestException", "ValueError", "Exception"},
      LookupError      |-> {"LookupError", "Exception"} ]

IsInstance(exc, classes) == ExceptionBases[exc] \cap classes # {}

\* stop=stop_after_attempt(3)
STOP_AFTER_ATTEMPT == 3

\* retry=retry_if_exception_type((requests.Timeout, requests.ConnectionError,
\*                                RetryableHTTPStatusError))
RETRY_EXCEPTION_TYPES == {"Timeout", "ConnectionError", "RetryableHTTPStatusError"}

HTTP_SCHEME == <<104, 116, 116, 112, 58, 47, 47>>  \* "http://"
HTTPS_SCHEME == <<104, 116, 116, 112, 115, 58, 47, 47>>  \* "https://"

ensure_http_scheme(url) ==
    LET cleaned == Strip(url)
    IN  IF cleaned = <<>> THEN cleaned
        ELSE IF StartsWith(cleaned, HTTP_SCHEME) \/ StartsWith(cleaned, HTTPS_SCHEME)
        THEN cleaned
        ELSE IF StartsWith(cleaned, <<47, 47>>) THEN <<104, 116, 116, 112, 115, 58>> \o cleaned  \* "https:"
        ELSE IF HasScheme(cleaned) THEN cleaned
        ELSE HTTPS_SCHEME \o cleaned

\* What one call ended in: the exception it raised ("" if it returned), the
\* status code of the response (0 if there was none) and the value returned.
Raises(exc, status) == [raised |-> exc, status |-> status, value |-> <<None, None>>]

Returns(status, value) == [raised |-> "", status |-> status, value |-> value]

\* _fetch_once(url, timeout). reply is what session.get does with the target
\* URL: the exception it raises, or the response (status_code, url, text);
\* decoding the text is the exception text_raises, if any.
fetch_once(url, reply) ==
    IF reply.raises # "" THEN Raises(reply.raises, 0)
    ELSE IF 500 <= reply.status_code /\ reply.status_code < 600
    THEN Raises("RetryableHTTPStatusError", reply.status_code)
    ELSE IF reply.text_raises # "" THEN Raises(reply.text_raises, reply.status_code)
    ELSE Returns(reply.status_code, <<Some(reply.url), Some(reply.text)>>)

\* The retry predicate of _retryer on the outcome of an attempt.
retry_if_any_exception(outcome) == outcome.raised # ""

retry_if_exception_type(outcome) ==
    outcome.raised # "" /\ IsInstance(outcome.raised, RETRY_EXCEPTION_TYPES)

\* Retrying.iter after attempt attempt_number: TRUE when it sleeps and calls
\* again; otherwise the outcome is returned or (reraise=True) raised as it is.
retryer_calls_again(attempt_number, outcome) ==
    retry_if_exception_type(outcome) /\ attempt_number < STOP_AFTER_ATTEMPT

\* The except clauses of fetch_html, in order.
FETCH_HTML_HANDLERS == <<"RetryableHTTPStatusError", "RequestException", "Exception">>

\* fetch_html(url), from the outcome _retryer ended with.
fetch_html_result(outcome) ==
    IF outcome.raised = "" THEN Returns(outcome.status, outcome.value)
    ELSE IF IsInstance(outcome.raised, Range(FETCH_HTML_HANDLERS))
    THEN Returns(outcome.status, <<None, None>>)
    ELSE Raises(outcome.raised, outcome.status)

-----------------------------------------------------------------------------
(* One call of fetch_html, attempt by attempt (SpecFetch)                  *)

FetchUrlPool ==
    { <<97, 46, 105, 111>>,  \* "a.io"
      <<47, 47, 97, 46, 105, 111>>,  \* "//a.io"
      <<104, 116, 116, 112, 58, 47, 47, 97, 46, 105, 111>>,  \* "http://a.io"
      <<32, 104, 116, 116, 112, 115, 58, 47, 47, 97, 46, 105, 111, 47, 32>>,  \* " https://a.io/ "
      <<>> }

StatusPool == {200, 301, 404, 500, 503}

REDIRECTED_URL == <<104, 116, 116, 112, 115, 58, 47, 47, 98, 46, 105, 111, 47>>  \* "https://b.io/"

PAGE_TEXT == <<60, 104, 116, 109, 108, 62>>  \* "<html>"

Response(status_code, url, text_raises) ==
    [raises |-> "", status_code |-> status_code, url |-> url, text |-> PAGE_TEXT,
     text_raises |-> text_raises]

NoResponse(exc) ==
    [raises |-> exc, status_code |-> 0, url |-> <<>>, text |-> <<>>, text_raises |-> ""]

\* What session.get can do with target_url: requests raises MissingSchema for
\* a URL without a scheme, which is what the empty string is.
ReplyPool(target_url) ==
    IF target_url = <<>> THEN {NoResponse("MissingSchema")}
    ELSE {NoResponse(exc) : exc \in {"Timeout", "ConnectionError", "ConnectTimeout",
                                     "TooManyRedirects"}}
         \cup {Response(status, url, "") :
                  status \in StatusPool, url \in {target_url, REDIRECTED_URL}}
         \cup {Response(200, target_url, "LookupError")}

InitFetch ==
    /\ pc = "fetching"
    /\ fetch_url \in FetchUrlPool
    /\ attempts = <<>>
    /\ fetched = None
    /\ RunIdle
    /\ SelectIdle
    /\ DiscoverIdle
    /\ SimilarityIdle
    /\ ShortlistIdle
    /\ features_order = <<>>
    /\ features = <<>>
    /\ orb = 0
    /\ total = 0
    /\ uf_state = NewUnionFind
    /\ applied = {}
    /\ report = NoReport
    /\ written = {}
    /\ write_log = <<>>
    /\ ScoreIdle
    /\ TrimIdle
    /\ AssetLogIdle
    /\ CallersIdle

\* An attempt after which _retryer sleeps and calls _fetch_once again.
FetchRetry ==
    /\ pc = "fetching"
    /\ \E reply \in ReplyPool(ensure_http_scheme(fetch_url)) :
          LET outcome == fetch_once(fetch_url, reply)
          IN  /\ retryer_calls_again(Len(attempts) + 1, outcome)
              /\ attempts' = Append(attempts, outcome)
    /\ UNCHANGED <<concVars, logVars, trimVars, scoreVars, shortVars, simVars, pc, fetch_url, fetched, groupVars, runVars, selVars, discVars>>

\* The attempt that ends _retryer, and the return of fetch_html.
FetchReturn ==
    /\ pc = "fetching"
    /\ \E reply \in ReplyPool(ensure_http_scheme(fetch_url)) :
          LET outcome == fetch_once(fetch_url, reply)
          IN  /\ ~retryer_calls_again(Len(attempts) + 1, outcome)
              /\ attempts' = Append(attempts, outcome)
              /\ fetched' = Some(fetch_html_result(outcome))
    /\ pc' = "fetched"
    /\ UNCHANGED <<concVars, logVars, trimVars, scoreVars, shortVars, simVars, fetch_url, groupVars, runVars, selVars, discVars>>

NextFetch == FetchRetry \/ FetchReturn

SpecFetch == InitFetch /\ [][NextFetch]_vars

-----------------------------------------------------------------------------
(* combined_similarity on one pair of feature records (SpecSimilarity)     *)

\* Hash strings: missing, of the usual 16 digits, shorter and longer.
HashPool == {<<>>, ZEROS, ONES, LOW16, <<15, 15>>, Rep(15, HASH_DIGITS + 4)}

\* Histograms (units of 1/64): empty, of different lengths, and one whose
\* bins add up to more than 1.
HistogramPool == {<<>>, <<64, 0, 0>>, <<16, 16, 32>>, <<32, 32>>, <<64, 64, 64, 64>>}

\* The feature records compared: phash and histogram vary freely, dhash and
\* ahash are missing, equal to the phash, or its complement in length.
SimilarityPool ==
    { [website |-> <<97>>, phash |-> p, dhash |-> d, ahash |-> a,
       hsv_histogram |-> h, normalized_path |-> TRUE] :
         p \in HashPool, d \in {<<>>, ZEROS}, a \in {<<>>, <<15, 15>>}, h \in HistogramPool }

\* orb_score: None, or a score in units of 1/64, also outside [0, 1].
OrbScorePool == {None, Some(0), Some(32), Some(64), Some(-64), Some(128)}

InitSimilarity ==
    /\ pc = "similarity_ready"
    /\ pair \in SimilarityPool \X SimilarityPool
    /\ orb_given \in OrbScorePool
    /\ fused = None
    /\ RunIdle
    /\ SelectIdle
    /\ DiscoverIdle
    /\ FetchIdle
    /\ ShortlistIdle
    /\ features_order = <<>>
    /\ features = <<>>
    /\ orb = 0
    /\ total = 0
    /\ uf_state = NewUnionFind
    /\ applied = {}
    /\ report = NoReport
    /\ written = {}
    /\ write_log = <<>>
    /\ ScoreIdle
    /\ TrimIdle
    /\ AssetLogIdle
    /\ CallersIdle

\* combined_similarity(fA, fB, orb_score), and the same with fA and fB swapped.
CombinedSimilarity ==
    /\ pc = "similarity_ready"
    /\ fused' = Some([ab |-> combined_similarity(pair[1], pair[2], orb_given),
                      ba |-> combined_similarity(pair[2], pair[1], orb_given)])
    /\ pc' = "similarity_done"
    /\ UNCHANGED <<concVars, logVars, trimVars, scoreVars, shortVars, pair, orb_given, groupVars, runVars, selVars, discVars, fetchVars>>

NextSimilarity == CombinedSimilarity

SpecSimilarity == InitSimilarity /\ [][NextSimilarity]_vars

-----------------------------------------------------------------------------
(* shortlist_by_hash for one anchor of a feature map (SpecShortlist)       *)

MaxShortlistSites == 3

MaxCrowd == 53

\* The numbers of sites of a crowded map are the CrowdSpan largest ones.
CrowdSpan == 2

\* A record without a phash.
NoHashLogo == [phash |-> <<>>, dhash |-> ZEROS, ahash |-> ZEROS,
               hsv_histogram |-> <<64, 0, 0>>, normalized_path |-> TRUE]

PlainLogo == [phash |-> ZEROS, dhash |-> ZEROS, ahash |-> ZEROS,
              hsv_histogram |-> <<64, 0, 0>>, normalized_path |-> TRUE]

\* In a crowded map the first sites in key order carry the logo 16 pHash bits
\* from the plain one, the others the plain one; this many carry the first.
FarCounts == {0, 2, 30}

InitShortlist ==
    /\ pc = "shortlist_ready"
    /\ \/ /\ \E n \in 1..MaxShortlistSites : features_order \in InputOrders(n)
          /\ \E logo \in [Range(features_order) -> LogoPool \cup {NoHashLogo}] :
                features = [w \in Range(features_order) |-> LogoFeatures(w, logo[w])]
          /\ anchor_key \in Range(features_order)
       \/ \E n \in (MaxCrowd - CrowdSpan + 1)..MaxCrowd, far \in FarCounts :
             LET ascending == [i \in 1..n |-> TwoDigits(i)]
             IN  /\ features_order \in {ascending, Reverse(ascending)}
                 /\ features = [w \in Range(ascending) |->
                                  LogoFeatures(w, IF \E i \in 1..far : w = TwoDigits(i)
                                                  THEN SameLogo ELSE PlainLogo)]
                 /\ anchor_key \in {TwoDigits(1), TwoDigits(far + 1), TwoDigits(n)}
    /\ shortlisted = None
    /\ orb = 0
    /\ total = Len(features_order)
    /\ uf_state = NewUnionFind
    /\ applied = {}
    /\ report = NoReport
    /\ written = {}
    /\ write_log = <<>>
    /\ RunIdle
    /\ SelectIdle
    /\ DiscoverIdle
    /\ FetchIdle
    /\ SimilarityIdle
    /\ ScoreIdle
    /\ TrimIdle
    /\ AssetLogIdle
    /\ CallersIdle

\* shortlist = shortlist_by_hash(feature, features_map), as pairwise_scores
\* calls it: max_candidates and max_hamming are the defaults.
ShortlistByHash ==
    /\ pc = "shortlist_ready"
    /\ shortlisted' = Some(shortlist_by_hash(features[anchor_key], FeaturesMap,
                                             MAX_CANDIDATES, MAX_HAMMING))
    /\ pc' = "shortlist_done"
    /\ UNCHANGED <<concVars, logVars, trimVars, scoreVars, anchor_key, groupVars, runVars, selVars, discVars, fetchVars, simVars>>

NextShortlist == ShortlistByHash

SpecShortlist == InitShortlist /\ [][NextShortlist]_vars

-----------------------------------------------------------------------------
(* SpecBand: pairwise_scores on logos whose base scores lie around the     *)
(* uncertain band [T_LINK - 0.05, T_LINK + 0.10]                           *)

MaxBandSites == 3

\* A pHash 8 bits from the plain one.
LOW8 == Rep(0, HASH_DIGITS - 2) \o Rep(15, 2)

\* Base scores against the plain logo: 0.75 (in the band, above T_LINK) for
\* the two logos with the opposite dHash, one of them without a normalized
\* image; 0.70625 (in the band, below T_LINK) for the one that is also 8
\* pHash bits away; 0.9125 (above the band) for SameLogo, whose base score
\* against the opposite-dHash logos is 0.6625 (below the band).
BandLogoPool ==
    { PlainLogo,
      SameLogo,
      [phash |-> ZEROS, dhash |-> ONES, ahash |-> ZEROS,
       hsv_histogram |-> <<64, 0, 0>>, normalized_path |-> TRUE],
      [phash |-> ZEROS, dhash |-> ONES, ahash |-> ZEROS,
       hsv_histogram |-> <<64, 0, 0>>, normalized_path |-> FALSE],
      [phash |-> LOW8, dhash |-> ONES, ahash |-> ZEROS,
       hsv_histogram |-> <<64, 0, 0>>, normalized_path |-> TRUE] }

\* orb_keypoints_match: 0, 0.5 or 1.
BandOrbPool == {0, 32, 64}

InitBand ==
    /\ pc = "group_ready"
    /\ \E n \in 0..MaxBandSites :
          features_order \in {SubSeq(WebsitePool, 1, n), Reverse(SubSeq(WebsitePool, 1, n))}
    /\ \E logo \in [Range(features_order) -> BandLogoPool] :
          features = [w \in Range(features_order) |-> LogoFeatures(w, logo[w])]
    /\ orb \in BandOrbPool
    /\ total = Len(features_order)
    /\ uf_state = NewUnionFind
    /\ applied = {}
    /\ report = NoReport
    /\ written = {}
    /\ write_log = <<>>
    /\ RunIdle
    /\ SelectIdle
    /\ DiscoverIdle
    /\ FetchIdle
    /\ SimilarityIdle
    /\ ShortlistIdle
    /\ ScoreIdle
    /\ TrimIdle
    /\ AssetLogIdle
    /\ CallersIdle

SpecBand == InitBand /\ [][NextGroup]_vars

-----------------------------------------------------------------------------
(* SpecPairs: pairwise_scores on small maps whose logos lie within and     *)
(* beyond pHash distance 16 of each other, and on maps of identical logos  *)
(* one and two larger than the shortlist                                   *)

MaxPairSites == 3

\* A pHash 20 bits from the plain one and 4 bits from SameLogo's: the base
\* score against the plain logo is 0.890625, above T_LINK.
LOW20 == Rep(0, HASH_DIGITS - 5) \o Rep(15, 5)

FarLogo == [phash |-> LOW20, dhash |-> ZEROS, ahash |-> ZEROS,
            hsv_histogram |-> <<64, 0, 0>>, normalized_path |-> TRUE]

PairLogoPool == {PlainLogo, SameLogo, FarLogo, NoHashLogo, UnrelatedLogo}

\* The sizes of the maps of identical logos: every site has MAX_CANDIDATES
\* others at distance 0, or one more than that.
PairCrowdSizes == {MAX_CANDIDATES + 1, MAX_CANDIDATES + 2}

InitPairs ==
    /\ pc = "group_ready"
    /\ \/ /\ \E n \in 0..MaxPairSites : features_order \in InputOrders(n)
          /\ \E logo \in [Range(features_order) -> PairLogoPool] :
                features = [w \in Range(features_order) |-> LogoFeatures(w, logo[w])]
          /\ orb \in OrbPool
       \/ /\ \E n \in PairCrowdSizes :
                LET ascending == [i \in 1..n |-> TwoDigits(i)]
                IN  features_order \in {ascending, Reverse(ascending)}
          /\ features = [w \in Range(features_order) |-> LogoFeatures(w, SameLogo)]
          /\ orb = 0
    /\ total = Len(features_order)
    /\ uf_state = NewUnionFind
    /\ applied = {}
    /\ report = NoReport
    /\ written = {}
    /\ write_log = <<>>
    /\ RunIdle
    /\ SelectIdle
    /\ DiscoverIdle
    /\ FetchIdle
    /\ SimilarityIdle
    /\ ShortlistIdle
    /\ ScoreIdle
    /\ TrimIdle
    /\ AssetLogIdle
    /\ CallersIdle


SpecPairs == InitPairs /\ [][NextGroup]_vars

-----------------------------------------------------------------------------
(* score_candidate on one candidate and one image_info (SpecScore)         *)

\* Confidences per mille: none, the lowest and highest of the extractors, 1.
ScoreConfidencePool == {0, 550, 950, 1000}

\* Widths and heights around the thresholds 48 and 1024 and the ratios 0.8, 5 and 6.
DimensionPool == {0, 16, 47, 48, 60, 64, 300, 1024, 1025, 2000}

\* No image_info, what sniff_image_info makes of an image file, or of an SVG
\* document without width or height.
ImageInfoPool ==
    {None, Some(UNSIZED_SVG_INFO)}
    \cup {sniff_image_info(<<IMAGE_MAGIC, w, h, alpha>>) :
             w \in DimensionPool, h \in DimensionPool, alpha \in {0, 1}}

InitScore ==
    /\ pc = "score_ready"
    /\ \E confidence \in ScoreConfidencePool, info \in ImageInfoPool :
          score_input = [candidate |-> Candidate(<<47, 120>>, "icon", confidence),
                         image_info |-> info]
    /\ score_output = None
    /\ features_order = <<>>
    /\ features = <<>>
    /\ orb = 0
    /\ total = 0
    /\ uf_state = NewUnionFind
    /\ applied = {}
    /\ report = NoReport
    /\ written = {}
    /\ write_log = <<>>
    /\ RunIdle
    /\ SelectIdle
    /\ DiscoverIdle
    /\ FetchIdle
    /\ SimilarityIdle
    /\ ShortlistIdle
    /\ TrimIdle
    /\ AssetLogIdle
    /\ CallersIdle

\* score = score_candidate(candidate_copy, image_info)
ScoreCandidate ==
    /\ pc = "score_ready"
    /\ score_output' = Some(score_candidate(score_input.candidate, score_input.image_info))
    /\ pc' = "score_done"
    /\ UNCHANGED <<concVars, logVars, trimVars, score_input, groupVars, runVars, selVars, discVars, fetchVars, simVars,
                   shortVars>>

NextScore == ScoreCandidate

SpecScore == InitScore /\ [][NextScore]_vars

-----------------------------------------------------------------------------
(* SpecFilter: discover_logo_candidates on pages whose urls the filter     *)
(* of _is_valid_candidate_src takes or leaves                              *)

MaxFilterElements == 2

\* Elements every extractor takes, with urls of every kind of path.
FilterElementList ==
    << Element("img", <<115, 105, 116, 101, 45, 108, 111, 103, 111>>, TRUE, <<47, 104, 101, 97, 100, 101, 114, 47, 108, 111, 103, 111, 46, 112, 110, 103>>),  \* "site-logo", "/header/logo.png"
       Element("link", <<105, 99, 111, 110>>, FALSE, <<47>>),  \* "icon", "/"
       Element("meta", <<111, 103, 58, 105, 109, 97, 103, 101>>, FALSE, <<104, 116, 116, 112, 115, 58, 47, 47, 97, 47, 104, 101, 114, 111, 45, 98, 97, 110, 110, 101, 114, 46, 106, 112, 103>>),  \* "og:image", "https://a/hero-banner.jpg"
       Element("link", <<105, 99, 111, 110>>, FALSE, <<47, 105, 109, 103, 47, 67, 111, 118, 101, 114, 46, 80, 78, 71>>),  \* "icon", "/img/Cover.PNG"
       Element("img", <<115, 105, 116, 101, 45, 108, 111, 103, 111>>, FALSE, <<47, 108, 111, 103, 111, 46, 98, 109, 112>>),  \* "site-logo", "/logo.bmp"
       Element("script", <<97, 112, 112, 108, 105, 99, 97, 116, 105, 111, 110, 47, 108, 100, 43, 106, 115, 111, 110>>, FALSE, <<104, 116, 116, 112, 115, 58, 47, 47, 97, 47, 98, 114, 97, 110, 100>>),  \* "application/ld+json", "https://a/brand"
       Element("meta", <<116, 119, 105, 116, 116, 101, 114, 58, 105, 109, 97, 103, 101>>, FALSE, <<47, 112, 104, 111, 116, 111, 46, 74, 80, 69, 71, 63, 118, 61, 104, 101, 114, 111, 46, 101, 120, 101>>),  \* "twitter:image", "/photo.JPEG?v=hero.exe"
       Element("link", <<105, 99, 111, 110>>, FALSE, <<47, 105, 109, 97, 103, 101>>),  \* "icon", "/image"
       Element("link", <<97, 112, 112, 108, 101, 45, 116, 111, 117, 99, 104, 45, 105, 99, 111, 110>>, FALSE, <<102, 116, 112, 58, 47, 47, 97, 47, 108, 111, 103, 111, 46, 112, 110, 103>>),  \* "apple-touch-icon", "ftp://a/logo.png"
       Element("img", <<98, 114, 97, 110, 100>>, TRUE, INLINE_IMAGE),  \* "brand"
       Element("a", <<>>, FALSE, <<47, 47, 91>>) >>  \* "//["

InitFilter ==
    /\ pc = "discover_start"
    /\ \E n \in 0..MaxFilterElements : page \in DistinctSeqs(Range(FilterElementList), n)
    /\ base_url = <<104, 116, 116, 112, 115, 58, 47, 47, 97, 47>>  \* "https://a/"
    /\ lazy \in BOOLEAN
    /\ attr_order = <<>>
    /\ failure = None
    /\ candidates = <<>>
    /\ selected = NoSelection
    /\ RunIdleButLazy
    /\ FetchIdle
    /\ SimilarityIdle
    /\ ShortlistIdle
    /\ ScoreIdle
    /\ features_order = <<>>
    /\ features = <<>>
    /\ orb = 0
    /\ total = 0
    /\ uf_state = NewUnionFind
    /\ applied = {}
    /\ report = NoReport
    /\ written = {}
    /\ write_log = <<>>
    /\ TrimIdle
    /\ AssetLogIdle
    /\ CallersIdle

NextFilter == DiscoverPage \/ SelectDiscovered

SpecFilter == InitFilter /\ [][NextFilter]_vars

-----------------------------------------------------------------------------
(* extract/normalize.py                                                    *)

\* An image is [mode, width, height, rows]: rows[y][x] is the pixel in column
\* x - 1 of row y - 1, a tuple of one grey level per colour (the three of R,
\* G and B are equal here) followed, in mode RGBA, by the alpha.
WHITE == 255
INK == 0
OPAQUE == 255
TRANSPARENT == 0

ImageOf(mode, rows) ==
    [mode |-> mode, width |-> Len(rows[1]), height |-> Len(rows), rows |-> rows]

\* img.convert("RGBA"): an image without alpha gets alpha 255 everywhere.
convert_rgba(img) ==
    IF img.mode = "RGBA" THEN img
    ELSE [img EXCEPT !.mode = "RGBA",
                     !.rows = [y \in 1..img.height |->
                                  [x \in 1..img.width |-> <<img.rows[y][x][1], OPAQUE>>]]]

MinOf(S) == CHOOSE m \in S : \A x \in S : m <= x

\* Image.getbbox(): (left, upper, right, lower) around the pixels marked,
\* None when there is none.
BoundingBox(width, height, marked) ==
    LET xs == {x \in 1..width : \E y \in 1..height : <<x, y>> \in marked}
        ys == {y \in 1..height : \E x \in 1..width : <<x, y>> \in marked}
    IN  IF marked = {} THEN None
        ELSE Some(<<MinOf(xs) - 1, MinOf(ys) - 1, MaxOf(xs), MaxOf(ys)>>)

Pixels(img) == (1..img.width) \X (1..img.height)

\* alpha.getbbox() of the channel A.
alpha_bbox(img) ==
    IF img.mode # "RGBA" THEN None
    ELSE BoundingBox(img.width, img.height,
                     {p \in Pixels(img) : img.rows[p[2]][p[1]][2] # TRANSPARENT})

\* ImageChops.difference(img, background).getbbox(), background being an
\* image of the pixel at (0, 0).
color_bbox(img) ==
    BoundingBox(img.width, img.height,
                {p \in Pixels(img) : img.rows[p[2]][p[1]] # img.rows[1][1]})

\* img.crop(box)
crop(img, box) ==
    [mode |-> img.mode, width |-> box[3] - box[1], height |-> box[4] - box[2],
     rows |-> [y \in 1..(box[4] - box[2]) |->
                  [x \in 1..(box[3] - box[1]) |-> img.rows[box[2] + y][box[1] + x]]]]

DEFAULT_PAD == 8

\* trim_and_square(img) with the default pad and bg: the trimmed image, the
\* side of the transparent canvas and where the trimmed image is pasted.
trim_and_square(image) ==
    LET img == IF image.mode # "RGBA" THEN convert_rgba(image) ELSE image
        bbox == IF alpha_bbox(img) # None THEN alpha_bbox(img) ELSE color_bbox(img)
        trimmed == IF bbox # None THEN crop(img, bbox[1]) ELSE img
        pad == Max(0, DEFAULT_PAD)
        target_side == Max(trimmed.width, trimmed.height) + pad * 2
    IN  IF trimmed.width = 0 \/ trimmed.height = 0
        THEN [trimmed |-> trimmed, side |-> 0, offset_x |-> 0, offset_y |-> 0]
        ELSE [trimmed |-> trimmed, side |-> target_side,
              offset_x |-> (target_side - trimmed.width) \div 2,
              offset_y |-> (target_side - trimmed.height) \div 2]

-----------------------------------------------------------------------------
(* SpecTrim: trim_and_square on a decoded image                            *)

MaxSide == 3

\* The pixels of an image without alpha are white or ink; those of an image
\* with alpha are transparent or opaque ink.
PixelPool(mode) ==
    IF mode = "RGB" THEN {<<WHITE>>, <<INK>>}
    ELSE {<<INK, TRANSPARENT>>, <<INK, OPAQUE>>}

InitTrim ==
    /\ pc = "trim_ready"
    /\ \E mode \in {"RGB", "RGBA"}, w \in 1..MaxSide, h \in 1..MaxSide :
          \E rows \in [1..h -> [1..w -> PixelPool(mode)]] :
              trim_input = ImageOf(mode, rows)
    /\ trim_output = None
    /\ features_order = <<>>
    /\ features = <<>>
    /\ orb = 0
    /\ total = 0
    /\ uf_state = NewUnionFind
    /\ applied = {}
    /\ report = NoReport
    /\ written = {}
    /\ write_log = <<>>
    /\ RunIdle
    /\ SelectIdle
    /\ DiscoverIdle
    /\ FetchIdle
    /\ SimilarityIdle
    /\ ShortlistIdle
    /\ ScoreIdle
    /\ AssetLogIdle
    /\ CallersIdle

\* img = to_png_rgba(image_bytes, mime_hint); img = trim_and_square(img)
TrimAndSquare ==
    /\ pc = "trim_ready"
    /\ trim_output' = Some(trim_and_square(convert_rgba(trim_input)))
    /\ pc' = "trim_done"
    /\ UNCHANGED <<concVars, logVars, trim_input, scoreVars, groupVars, runVars, selVars, discVars, fetchVars,
                   simVars, shortVars>>

NextTrim == TrimAndSquare

SpecTrim == InitTrim /\ [][NextTrim]_vars

-----------------------------------------------------------------------------
(* SpecShared: concurrent callers of _get_session, render_page and         *)
(* _shutdown_playwright                                                    *)

\* The calls the callers make between them.
MaxCalls == 5

\* Two threads.
Callers == {1, 2}

\* None, as the value of a global or a local that holds an object.
NULL == 0

\* The lock is not held.
FREE == 0

\* The next object made is numbered after all those made so far.
NewObject == objects.made + 1

\* A test that finds no session, whatever there is.
session_always_none(current) == TRUE

\* _session is None, the test _get_session makes before and under the lock.
session_is_none(current) == current = NULL

InitShared ==
    /\ pc = "shared"
    /\ caller_pc = [t \in Callers |-> "idle"]
    /\ calls_left = MaxCalls
    /\ locks = [session |-> FREE, playwright |-> FREE]
    /\ globals = [session |-> NULL, playwright |-> NULL, browser |-> NULL, context |-> NULL]
    /\ locals = [t \in Callers |->
                    [session |-> NULL, playwright |-> NULL, browser |-> NULL,
                     context |-> NULL]]
    /\ objects = [made |-> 0, sessions |-> {}, playwrights |-> {}, browsers |-> {},
                  contexts |-> {}, closed |-> {}, paged |-> {}, paged_closed |-> {}]
    /\ features_order = <<>>
    /\ features = <<>>
    /\ orb = 0
    /\ total = 0
    /\ uf_state = NewUnionFind
    /\ applied = {}
    /\ report = NoReport
    /\ written = {}
    /\ write_log = <<>>
    /\ RunIdle
    /\ SelectIdle
    /\ DiscoverIdle
    /\ FetchIdle
    /\ SimilarityIdle
    /\ ShortlistIdle
    /\ ScoreIdle
    /\ TrimIdle
    /\ AssetLogIdle

\* What the steps of the callers leave alone.
SharedFrame ==
    UNCHANGED <<pc, logVars, trimVars, scoreVars, groupVars, runVars, selVars, discVars,
                fetchVars, simVars, shortVars>>

Goto(t, label) == caller_pc' = [caller_pc EXCEPT ![t] = label]

\* A caller calls _get_session, render_page or _shutdown_playwright.
Call(t) ==
    /\ caller_pc[t] = "idle"
    /\ calls_left > 0
    /\ calls_left' = calls_left - 1
    /\ \E entry \in {"gs_check", "eb_acquire", "sd_acquire"} : Goto(t, entry)
    /\ UNCHANGED <<locks, globals, locals, objects>>
    /\ SharedFrame

\* _get_session: if _session is None:
GetSessionCheck(t) ==
    /\ caller_pc[t] = "gs_check"
    /\ Goto(t, IF session_is_none(globals.session) THEN "gs_acquire" ELSE "gs_return")
    /\ UNCHANGED <<calls_left, locks, globals, locals, objects>>
    /\ SharedFrame

\* with _session_lock:
GetSessionAcquire(t) ==
    /\ caller_pc[t] = "gs_acquire"
    /\ locks.session = FREE
    /\ locks' = [locks EXCEPT !.session = t]
    /\ Goto(t, "gs_locked")
    /\ UNCHANGED <<calls_left, globals, locals, objects>>
    /\ SharedFrame

\* if _session is None: session = requests.Session(); session.headers.update(...)
GetSessionCreate(t) ==
    /\ caller_pc[t] = "gs_locked"
    /\ IF session_is_none(globals.session)
       THEN /\ objects' = [objects EXCEPT !.made = NewObject, !.sessions = @ \cup {NewObject}]
            /\ locals' = [locals EXCEPT ![t].session = NewObject]
            /\ Goto(t, "gs_publish")
       ELSE /\ UNCHANGED <<objects, locals>>
            /\ Goto(t, "gs_release")
    /\ UNCHANGED <<calls_left, locks, globals>>
    /\ SharedFrame

\* _session = session
GetSessionPublish(t) ==
    /\ caller_pc[t] = "gs_publish"
    /\ globals' = [globals EXCEPT !.session = locals[t].session]
    /\ Goto(t, "gs_release")
    /\ UNCHANGED <<calls_left, locks, locals, objects>>
    /\ SharedFrame

\* The end of the with block.
GetSessionRelease(t) ==
    /\ caller_pc[t] = "gs_release"
    /\ locks' = [locks EXCEPT !.session = FREE]
    /\ Goto(t, "gs_return")
    /\ UNCHANGED <<calls_left, globals, locals, objects>>
    /\ SharedFrame

\* return _session; the local session is no more.
GetSessionReturn(t) ==
    /\ caller_pc[t] = "gs_return"
    /\ locals' = [locals EXCEPT ![t].session = NULL]
    /\ Goto(t, "idle")
    /\ UNCHANGED <<calls_left, locks, globals, objects>>
    /\ SharedFrame

\* render_page: context = _ensure_browser_context(), which begins
\* with _playwright_lock:
EnsureAcquire(t) ==
    /\ caller_pc[t] = "eb_acquire"
    /\ locks.playwright = FREE
    /\ locks' = [locks EXCEPT !.playwright = t]
    /\ Goto(t, "eb_locked")
    /\ UNCHANGED <<calls_left, globals, locals, objects>>
    /\ SharedFrame

\* if _browser_context is not None: return _browser_context
EnsureCheck(t) ==
    /\ caller_pc[t] = "eb_locked"
    /\ IF globals.context # NULL
       THEN /\ locals' = [locals EXCEPT ![t].context = globals.context]
            /\ Goto(t, "eb_release")
       ELSE /\ UNCHANGED locals
            /\ Goto(t, "eb_start")
    /\ UNCHANGED <<calls_left, locks, globals, objects>>
    /\ SharedFrame

\* playwright = sync_playwright().start(); browser = playwright.chromium.launch(...);
\* context = browser.new_context() and its two timeouts.
EnsureCreate(t) ==
    /\ caller_pc[t] = "eb_start"
    /\ objects' = [objects EXCEPT !.made = NewObject + 2,
                                  !.playwrights = @ \cup {NewObject},
                                  !.browsers = @ \cup {NewObject + 1},
                                  !.contexts = @ \cup {NewObject + 2}]
    /\ locals' = [locals EXCEPT ![t].playwright = NewObject, ![t].browser = NewObject + 1,
                                ![t].context = NewObject + 2]
    /\ Goto(t, "eb_assign")
    /\ UNCHANGED <<calls_left, locks, globals>>
    /\ SharedFrame

\* _playwright = playwright; _browser = browser; _browser_context = context;
\* atexit.register(_shutdown_playwright)
EnsureAssign(t) ==
    /\ caller_pc[t] = "eb_assign"
    /\ globals' = [globals EXCEPT !.playwright = locals[t].playwright,
                                  !.browser = locals[t].browser,
                                  !.context = locals[t].context]
    /\ Goto(t, "eb_release")
    /\ UNCHANGED <<calls_left, locks, locals, objects>>
    /\ SharedFrame

\* return _browser_context, which ends the with block.
EnsureReturn(t) ==
    /\ caller_pc[t] = "eb_release"
    /\ locks' = [locks EXCEPT !.playwright = FREE]
    /\ Goto(t, "rp_new_page")
    /\ UNCHANGED <<calls_left, globals, locals, objects>>
    /\ SharedFrame

\* page = context.new_page() and the rest of render_page.
RenderNewPage(t) ==
    /\ caller_pc[t] = "rp_new_page"
    /\ objects' = IF locals[t].context \in objects.contexts
                  THEN [objects EXCEPT !.paged = @ \cup {locals[t].context}]
                  ELSE [objects EXCEPT !.paged_closed = @ \cup {locals[t].context}]
    /\ locals' = [locals EXCEPT ![t].playwright = NULL, ![t].browser = NULL,
                                ![t].context = NULL]
    /\ Goto(t, "idle")
    /\ UNCHANGED <<calls_left, locks, globals>>
    /\ SharedFrame

\* _shutdown_playwright: with _playwright_lock:
ShutdownAcquire(t) ==
    /\ caller_pc[t] = "sd_acquire"
    /\ locks.playwright = FREE
    /\ locks' = [locks EXCEPT !.playwright = t]
    /\ Goto(t, "sd_context")
    /\ UNCHANGED <<calls_left, globals, locals, objects>>
    /\ SharedFrame

\* if _browser_context is not None: _browser_context.close(); _browser_context = None
ShutdownContext(t) ==
    /\ caller_pc[t] = "sd_context"
    /\ objects' = [objects EXCEPT !.contexts = @ \ {globals.context},
                                  !.closed = @ \cup ({globals.context} \ {NULL})]
    /\ globals' = [globals EXCEPT !.context = NULL]
    /\ Goto(t, "sd_browser")
    /\ UNCHANGED <<calls_left, locks, locals>>
    /\ SharedFrame

\* if _browser is not None: _browser.close(); _browser = None
ShutdownBrowser(t) ==
    /\ caller_pc[t] = "sd_browser"
    /\ objects' = [objects EXCEPT !.browsers = @ \ {globals.browser}]
    /\ globals' = [globals EXCEPT !.browser = NULL]
    /\ Goto(t, "sd_playwright")
    /\ UNCHANGED <<calls_left, locks, locals>>
    /\ SharedFrame

\* if _playwright is not None: _playwright.stop(); _playwright = None
ShutdownPlaywright(t) ==
    /\ caller_pc[t] = "sd_playwright"
    /\ objects' = [objects EXCEPT !.playwrights = @ \ {globals.playwright}]
    /\ globals' = [globals EXCEPT !.playwright = NULL]
    /\ Goto(t, "sd_release")
    /\ UNCHANGED <<calls_left, locks, locals>>
    /\ SharedFrame

\* The end of the with block.
ShutdownRelease(t) ==
    /\ caller_pc[t] = "sd_release"
    /\ locks' = [locks EXCEPT !.playwright = FREE]
    /\ Goto(t, "idle")
    /\ UNCHANGED <<calls_left, globals, locals, objects>>
    /\ SharedFrame

NextShared ==
    \E t \in Callers :
        \/ Call(t)
        \/ GetSessionCheck(t) \/ GetSessionAcquire(t) \/ GetSessionCreate(t)
        \/ GetSessionPublish(t) \/ GetSessionRelease(t) \/ GetSessionReturn(t)
        \/ EnsureAcquire(t) \/ EnsureCheck(t) \/ EnsureCreate(t) \/ EnsureAssign(t)
        \/ EnsureReturn(t) \/ RenderNewPage(t)
        \/ ShutdownAcquire(t) \/ ShutdownContext(t) \/ ShutdownBrowser(t)
        \/ ShutdownPlaywright(t) \/ ShutdownRelease(t)

SpecShared == InitShared /\ [][NextShared]_vars

-----------------------------------------------------------------------------
(* SpecRun: main, with _process_sites one entry at a time                  *)

MaxEntries == 2

\* The URLs pages are served from, as urlparse splits them: https://a/,
\* https://a/x, https://a./ and https://b:8/.
UrlPool ==
    { [netloc |-> <<97>>, path |-> <<47>>],
      [netloc |-> <<97>>, path |-> <<47, 120>>],
      [netloc |-> <<97, 46>>, path |-> <<47>>],
      [netloc |-> <<98, 58, 56>>, path |-> <<47>>] }

\* The logos a selection may yield: the features of the image, and the file
\* extension _extension_from_info finds for it ("" when it finds none).
RunLogoPool ==
    { [features |-> SameLogo, suffix |-> DOT_PNG],
      [features |-> UnrelatedLogo, suffix |-> <<>>] }

\* The candidates of a page with a favicon link and a hero banner.
RunCandidates ==
    discover_logo_candidates(FaviconAndHeroPage, <<104, 116, 116, 112, 115, 58, 47, 47, 97, 47>>, <<>>, None)  \* "https://a/"

\* isinstance(best.get("image_bytes"), (bytes, bytearray))
CarriesBytes(best) == best # None /\ best[1].image_bytes # None

InitRun ==
    /\ pc = "main_start"
    /\ \E n \in 0..MaxEntries : entries \in [1..n -> UrlPool]
    /\ lazy \in BOOLEAN
    /\ cursor = 0
    /\ feature_rows = <<>>
    /\ assets = {}
    /\ exit_code = None
    /\ raised = ""
    /\ features_order = <<>>
    /\ features = <<>>
    /\ orb = 0
    /\ total = 0
    /\ uf_state = NewUnionFind
    /\ applied = {}
    /\ report = NoReport
    /\ written = {}
    /\ write_log = <<>>
    /\ SelectIdle
    /\ DiscoverIdle
    /\ FetchIdle
    /\ SimilarityIdle
    /\ ShortlistIdle
    /\ ScoreIdle
    /\ TrimIdle
    /\ AssetLogIdle
    /\ CallersIdle

\* An exception leaves main: the interpreter prints the traceback and exits
\* with code 1.
Abort(call) ==
    /\ pc' = "aborted"
    /\ exit_code' = Some(1)
    /\ raised' = call

\* entries = read_input(input_path)
MainReadInput ==
    /\ pc = "main_start"
    /\ pc' = "make_out_dir"
    /\ UNCHANGED <<concVars, logVars, trimVars, scoreVars, shortVars, simVars, fetchVars, discVars, selVars, groupVars, runVars>>

\* read_input raises: the input file does not exist or cannot be read.
MainReadInputFails ==
    /\ pc = "main_start"
    /\ Abort("read_input")
    /\ UNCHANGED <<concVars, logVars, trimVars, scoreVars, shortVars, simVars, fetchVars, discVars, selVars, groupVars, entries, lazy, cursor, feature_rows, assets>>

\* out_dir.mkdir(parents=True, exist_ok=True)
MainMakeOutDir ==
    /\ pc = "make_out_dir"
    /\ pc' = "process_sites"
    /\ UNCHANGED <<concVars, logVars, trimVars, scoreVars, shortVars, simVars, fetchVars, discVars, selVars, groupVars, runVars>>

MainMakeOutDirFails ==
    /\ pc = "make_out_dir"
    /\ Abort("out_dir.mkdir")
    /\ UNCHANGED <<concVars, logVars, trimVars, scoreVars, shortVars, simVars, fetchVars, discVars, selVars, groupVars, entries, lazy, cursor, feature_rows, assets>>

\* _process_sites up to its loop: no entries, nothing to do; otherwise the
\* assets directory is created unless lazy.
ProcessSitesEnter ==
    /\ pc = "process_sites"
    /\ IF entries = <<>>
       THEN pc' = "report" /\ cursor' = cursor
       ELSE pc' = "site" /\ cursor' = 1
    /\ UNCHANGED <<concVars, logVars, trimVars, scoreVars, shortVars, simVars, fetchVars, discVars, selVars, groupVars, entries, lazy, feature_rows, assets, exit_code, raised>>

\* assets_dir.mkdir raises.
ProcessSitesEnterFails ==
    /\ pc = "process_sites"
    /\ entries # <<>>
    /\ ~lazy
    /\ Abort("assets_dir.mkdir")
    /\ UNCHANGED <<concVars, logVars, trimVars, scoreVars, shortVars, simVars, fetchVars, discVars, selVars, groupVars, entries, lazy, cursor, feature_rows, assets>>

\* continue, or the end of the loop; best is bound anew for the next site.
NextSite ==
    /\ cursor' = cursor + 1
    /\ pc' = IF cursor = Len(entries) THEN "report" ELSE "site"
    /\ selected' = NoSelection

\* fetch_html gave no HTML.
SiteNoHtml ==
    /\ pc = "site"
    /\ NextSite
    /\ UNCHANGED <<concVars, logVars, trimVars, scoreVars, shortVars, simVars, fetchVars, discVars, candidates, base_url, groupVars, entries, lazy, feature_rows, assets, exit_code, raised>>

\* discover_logo_candidates found nothing.
SiteNoCandidates ==
    /\ pc = "site"
    /\ NextSite
    /\ UNCHANGED <<concVars, logVars, trimVars, scoreVars, shortVars, simVars, fetchVars, discVars, candidates, base_url, groupVars, entries, lazy, feature_rows, assets, exit_code, raised>>

\* best = select_best(candidates, website, lazy=lazy) for the candidates of
\* the page, by a server that answers every request alike.
SiteSelect ==
    /\ pc = "site"
    /\ \E response \in ResponsePool :
          selected' = select_best(RunCandidates, <<104, 116, 116, 112, 115, 58, 47, 47, 97, 47>>, lazy,  \* "https://a/"
                         [i \in 1..Min(Len(RunCandidates), MAX_FETCH) |-> response])
    /\ pc' = "site_selected"
    /\ UNCHANGED <<concVars, logVars, trimVars, scoreVars, shortVars, simVars, fetchVars, discVars, groupVars, runVars, candidates, base_url>>

\* The selection carries no image bytes.
SiteNoImageBytes ==
    /\ pc = "site_selected"
    /\ ~CarriesBytes(selected.best)
    /\ NextSite
    /\ UNCHANGED <<concVars, logVars, trimVars, scoreVars, shortVars, simVars, fetchVars, discVars, candidates, base_url, groupVars, entries, lazy, feature_rows, assets, exit_code, raised>>

\* output_path.parent.mkdir or output_path.write_bytes raises OSError.
SiteAssetWriteFails ==
    /\ pc = "site_selected"
    /\ CarriesBytes(selected.best)
    /\ Abort("write_bytes")
    /\ UNCHANGED <<concVars, logVars, trimVars, scoreVars, shortVars, simVars, fetchVars, discVars, selVars, groupVars, entries, lazy, cursor, feature_rows, assets>>

\* The original is saved, normalize_logo raises: no row.
SiteNormalizeFails ==
    /\ pc = "site_selected"
    /\ CarriesBytes(selected.best)
    /\ \E logo \in RunLogoPool :
          LET output_path == determine_asset_path(assets, safe_host_label(entries[cursor]),
                                                  logo.suffix)
          IN  /\ assets' = assets \cup {output_path}
              /\ asset_log' = Append(asset_log, AssetWrite(cursor, "original", output_path))
    /\ NextSite
    /\ UNCHANGED <<concVars, trimVars, scoreVars, shortVars, simVars, fetchVars, discVars, candidates, base_url, groupVars, entries, lazy, feature_rows, exit_code, raised>>

\* The original is saved, the logo is normalized and fingerprinted, and the
\* normalized image and its preview are saved, or saving them raises (the row
\* then has no normalized_path).
SiteExtracted ==
    /\ pc = "site_selected"
    /\ CarriesBytes(selected.best)
    /\ \E logo \in RunLogoPool, saved \in BOOLEAN :
          LET host_label == safe_host_label(entries[cursor])
              output_path == determine_asset_path(assets, host_label, logo.suffix)
          IN  /\ assets' = assets
                     \cup {output_path}
                     \cup (IF saved THEN normalized_asset_names(host_label) ELSE {})
              /\ asset_log' = asset_log
                     \o <<AssetWrite(cursor, "original", output_path)>>
                     \o (IF saved
                         THEN <<AssetWrite(cursor, "normalized", host_label \o DOT_PNG),
                                AssetWrite(cursor, "preview", host_label \o DOT_PREVIEW_PNG)>>
                         ELSE <<>>)
              /\ feature_rows' = Append(feature_rows,
                     LogoFeatures(host_label,
                                  [logo.features EXCEPT !.normalized_path = saved]))
    /\ NextSite
    /\ UNCHANGED <<concVars, trimVars, scoreVars, shortVars, simVars, fetchVars, discVars, candidates, base_url, groupVars, entries, lazy, exit_code, raised>>

\* _write_feature_table raises (to_parquet).
MainWriteFeatureTableFails ==
    /\ pc = "report"
    /\ feature_rows # <<>>
    /\ Abort("to_parquet")
    /\ UNCHANGED <<concVars, logVars, trimVars, scoreVars, shortVars, simVars, fetchVars, discVars, selVars, groupVars, entries, lazy, cursor, feature_rows, assets>>

\* The rest of main: the feature table, the feature map, the normalized
\* images, group_and_report, return 0.
MainReport ==
    /\ pc = "report"
    /\ features_order' = build_feature_map(feature_rows).order
    /\ features' = build_feature_map(feature_rows).feat
    /\ total' = Len(entries)
    /\ report' = group_and_report([order |-> features_order', feat |-> features'],
                       load_normalized_images([order |-> features_order', feat |-> features']),
                       orb, total', T_LINK)
    /\ \E failing \in SUBSET REPORT_FILES :
          /\ write_log' = write_reports(failing).log
          /\ written' = write_reports(failing).written
                            \cup (IF feature_rows # <<>> THEN {"features.parquet"} ELSE {})
    /\ uf_state' = report'.uf
    /\ applied' = EdgePairs(report'.edges)
    /\ pc' = "main_done"
    /\ exit_code' = Some(0)
    /\ UNCHANGED <<concVars, logVars, trimVars, scoreVars, shortVars, simVars, fetchVars, discVars, selVars, orb, entries, lazy, cursor, feature_rows, assets, raised>>

NextRun ==
    \/ MainReadInput \/ MainReadInputFails
    \/ MainMakeOutDir \/ MainMakeOutDirFails
    \/ ProcessSitesEnter \/ ProcessSitesEnterFails
    \/ SiteNoHtml \/ SiteNoCandidates \/ SiteSelect \/ SiteNoImageBytes
    \/ SiteAssetWriteFails \/ SiteNormalizeFails \/ SiteExtracted
    \/ MainWriteFeatureTableFails \/ MainReport

SpecRun == InitRun /\ [][NextRun]_vars

-----------------------------------------------------------------------------
(* Properties of the UnionFind class (SpecUF)                              *)

\* The member lists groups() returns, in bucket order.
GroupLists(u) ==
    LET g == groups(u)
    IN  [i \in 1..Len(g.roots) |-> g.members[g.roots[i]]]

SameGroup(u, a, b) ==
    \E i \in 1..Len(GroupLists(u)) :
        a \in Range(GroupLists(u)[i]) /\ b \in Range(GroupLists(u)[i])

\* The sites joined to the sites of S by a path of edges of E (pairs).
RECURSIVE Component(_, _)
Component(S, E) ==
    LET next == S \cup {e[2] : e \in {d \in E : d[1] \in S}}
                  \cup {e[1] : e \in {d \in E : d[2] \in S}}
    IN  IF next = S THEN S ELSE Component(next, E)

InNoEdge(w, E) == \A e \in E : e[1] # w /\ e[2] # w

\* C1: once the union-find is prepopulated with the feature websites, after any
\* unions of edges the member lists of groups() are pairwise disjoint, cover
\* exactly the feature websites, and a website in no edge is a group of one.
C1_GroupsPartitionWebsites ==
    pc = "uf_linking" =>
        LET lists == GroupLists(uf_state)
        IN  /\ \A i \in 1..Len(lists) : Cardinality(Range(lists[i])) = Len(lists[i])
            /\ \A i, j \in 1..Len(lists) :
                   i # j => Range(lists[i]) \cap Range(lists[j]) = {}
            /\ UNION {Range(lists[i]) : i \in 1..Len(lists)} = Sites
            /\ \A w \in Sites :
                   InNoEdge(w, applied) => \E i \in 1..Len(lists) : lists[i] = <<w>>

C1_Witness ==
    /\ pc = "uf_linking"
    /\ Cardinality(applied) >= 2
    /\ \E w \in Sites : InNoEdge(w, applied)
    /\ \E i \in 1..Len(GroupLists(uf_state)) : Len(GroupLists(uf_state)[i]) >= 3

\* C2: two websites are in the same group of groups() exactly when a path of
\* the edges given to union() joins them: the groups are the connected
\* components of the edge graph.
C2_GroupsAreComponents ==
    pc = "uf_linking" =>
        \A a, b \in Sites :
            SameGroup(uf_state, a, b) <=> b \in Component({a}, applied)

C2_Witness ==
    /\ pc = "uf_linking"
    /\ \E a, b \in Sites :
          /\ a # b
          /\ <<a, b>> \notin applied /\ <<b, a>> \notin applied
          /\ SameGroup(uf_state, a, b)
    /\ \E a, b \in Sites : ~SameGroup(uf_state, a, b)

-----------------------------------------------------------------------------
(* Properties of group_and_report (SpecGroup)                              *)

\* Every sequence that lists the elements of s once.
Orderings(s) ==
    {p \in [1..Len(s) -> Range(s)] : \A i, j \in 1..Len(s) : i # j => p[i] # p[j]}

\* groups.json and metrics.json as group_and_report writes them for the
\* features at hand inserted in the given order.
ReportedFiles(order) ==
    LET content == group_and_report([order |-> order, feat |-> features],
                       load_normalized_images(FeaturesMap), orb, total, T_LINK).content
    IN  <<content["groups.json"], content["metrics.json"]>>

\* C3: grouping is order-invariant: every permutation of the insertion order of
\* the feature map gives the same groups.json (group ids, members, order) and
\* the same metrics.json.
C3_OrderInvariant ==
    (pc = "group_done" /\ {"groups.json", "metrics.json"} \subseteq written) =>
        \A order \in Orderings(features_order) :
            ReportedFiles(order) = <<report.content["groups.json"], report.content["metrics.json"]>>

\* C4: every emitted edge (a, b, s) has a < b lexicographically, a # b and
\* T_LINK <= s <= 1.
C4_EdgesOrderedAndAboveThreshold ==
    pc = "group_done" =>
        \A i \in 1..Len(report.edges) :
            /\ LexLess(report.edges[i].left, report.edges[i].right)
            /\ report.edges[i].left # report.edges[i].right
            /\ T_LINK <= report.edges[i].score
            /\ report.edges[i].score <= ONE

C4_Witness ==
    /\ pc = "group_done"
    /\ \E i, j \in 1..Len(report.edges) :
          /\ report.edges[i].score = ONE
          /\ report.edges[j].score < ONE
          /\ Len(report.edges[j].left) > Len(report.edges[j].right)

\* C6: the groups payload is sorted by (size descending, group_id ascending),
\* the members of each group ascend, and each group_id is one of its members.
C6_GroupsPayloadSorted ==
    pc = "group_done" =>
        /\ \A i \in 1..(Len(report.groups) - 1) :
              \/ Len(report.groups[i].members) > Len(report.groups[i + 1].members)
              \/ /\ Len(report.groups[i].members) = Len(report.groups[i + 1].members)
                 /\ LexLess(report.groups[i].group_id, report.groups[i + 1].group_id)
        /\ \A i \in 1..Len(report.groups) :
              /\ \A k \in 1..(Len(report.groups[i].members) - 1) :
                    LexLess(report.groups[i].members[k], report.groups[i].members[k + 1])
              /\ report.groups[i].group_id \in Range(report.groups[i].members)

C6_Witness ==
    /\ pc = "group_done"
    /\ Len(report.groups) >= 3
    /\ Len(report.groups[1].members) = 2
    /\ Len(report.groups[2].members) = 1
    /\ Len(report.groups[3].members) = 1
    /\ features_order[1] = report.groups[1].members[2]

-----------------------------------------------------------------------------
(* Properties of group_and_report on same-logo sites (SpecIdentical)       *)

\* The sites with the shared logo are the members of one reported group, and
\* the site with the unrelated logo, if there, is a group of its own.
IdenticalInOneGroup ==
    /\ \E i \in 1..Len(report.groups) :
          Range(report.groups[i].members) = IdenticalSites
    /\ UnrelatedSite \in Sites =>
          \E i \in 1..Len(report.groups) : report.groups[i].members = <<UnrelatedSite>>

-----------------------------------------------------------------------------
(* Properties of a run of main (SpecRun)                                   *)

\* C7: the metrics of a run are consistent: extracted is the number of sites
\* that produced features and the sum of the group sizes, groups is the number
\* of groups, largest_group the largest group size (0 without groups), pairs
\* the number of edges, and coverage is extracted/total (0 when total = 0).
C7_MetricsConsistent ==
    pc = "main_done" =>
        /\ report.metrics.extracted = Len(feature_rows)
        /\ report.metrics.extracted =
               SumSeq([i \in 1..Len(report.groups) |-> Len(report.groups[i].members)])
        /\ report.metrics.groups = Len(report.groups)
        /\ report.metrics.largest_group =
               MaxOf({Len(report.groups[i].members) : i \in 1..Len(report.groups)})
        /\ report.metrics.pairs = Len(report.edges)
        /\ report.metrics.total = Len(entries)
        /\ report.metrics.coverage =
               IF Len(entries) = 0 THEN [num |-> 0, den |-> 1]
               ELSE [num |-> report.metrics.extracted, den |-> Len(entries)]

\* C8: a failure while processing one site never aborts the run: main ends
\* early only on an unreadable input or an out directory it cannot create.
C8_SiteFailureNeverAborts ==
    pc = "aborted" => raised \in {"read_input", "out_dir.mkdir"}

\* C9: the rows of a run have non-empty website keys, no two rows share a key,
\* and so the feature map has one key for each site that produced features.
C9_WebsiteKeysUnique ==
    pc = "main_done" =>
        /\ \A i \in 1..Len(feature_rows) : feature_rows[i].website # <<>>
        /\ \A i, j \in 1..Len(feature_rows) :
               i # j => feature_rows[i].website # feature_rows[j].website
        /\ Len(features_order) = Len(feature_rows)

-----------------------------------------------------------------------------
(* Properties of select_best (SpecSelect)                                  *)

\* The first candidate of the highest confidence.
FirstOfHighestConfidence ==
    candidates[CHOOSE i \in 1..Len(candidates) :
                  \A j \in 1..Len(candidates) :
                      /\ candidates[j].confidence <= candidates[i].confidence
                      /\ j < i => candidates[j].confidence < candidates[i].confidence]

\* C10: select_best with lazy=True loads no bytes (no HTTP fetch, no data: URI
\* decoded) and returns a copy of the highest-confidence candidate, the
\* first-seen one among equals, with resolved_src set and without image_bytes;
\* with no candidates select_best returns None.
C10_LazySelectsWithoutLoading ==
    pc = "select_done" =>
        /\ candidates = <<>> => selected.best = None
        /\ (lazy /\ candidates # <<>>) =>
              /\ selected.loads = <<>>
              /\ selected.best =
                    Some([FirstOfHighestConfidence EXCEPT
                             !.resolved_src = Some(FirstOfHighestConfidence.src)])
              /\ selected.best[1].image_bytes = None

\* A lazy selection among candidates whose highest confidence is shared, the
\* first of them not being the first of the list.
C10_Witness ==
    /\ pc = "select_done"
    /\ lazy
    /\ Len(candidates) >= 3
    /\ candidates[1].confidence < candidates[2].confidence
    /\ candidates[3].confidence = candidates[2].confidence
    /\ \A i \in 1..Len(candidates) : candidates[i].confidence <= candidates[2].confidence
    /\ selected.best[1].src = candidates[2].src
    /\ selected.loads = <<>>

\* The position in candidates of the scored copy s (srcs are distinct).
FirstSeen(s) == CHOOSE i \in 1..Len(candidates) : candidates[i].src = s.src

\* The scored copies are in confidence-descending, then first-seen, order.
ScoredInConfidenceOrder ==
    /\ Len(selected.scored) = Len(candidates)
    /\ \A i \in 1..Len(candidates) : \E j \in 1..Len(candidates) :
          selected.scored[j].src = candidates[i].src
    /\ \A i, j \in 1..Len(selected.scored) :
          i < j =>
             \/ selected.scored[i].confidence > selected.scored[j].confidence
             \/ /\ selected.scored[i].confidence = selected.scored[j].confidence
                /\ FirstSeen(selected.scored[i]) < FirstSeen(selected.scored[j])

\* The positions of the scored copies that got bytes.
WithBytes == {i \in 1..Len(selected.scored) : selected.scored[i].image_bytes # None}

\* The first position among P whose score no position of P exceeds.
FirstOfHighestScore(P) ==
    CHOOSE i \in P : \A j \in P :
        /\ selected.scored[j].score[1] <= selected.scored[i].score[1]
        /\ j < i => selected.scored[j].score[1] < selected.scored[i].score[1]

\* C11: eager select_best returns the highest-scoring candidate among those
\* that got bytes, whatever the scores of the others; without any bytes it
\* returns the highest-scoring candidate; among equal scores the earlier one in
\* confidence-descending, then first-seen, order.
C11_EagerPrefersBytes ==
    (pc = "select_done" /\ ~lazy /\ candidates # <<>>) =>
        /\ ScoredInConfidenceOrder
        /\ selected.best =
              Some(selected.scored[
                  IF WithBytes # {} THEN FirstOfHighestScore(WithBytes)
                  ELSE FirstOfHighestScore(1..Len(selected.scored))])

\* An eager selection that returns the first of two candidates with bytes and
\* the same score, while a candidate without bytes scores strictly higher.
C11_Witness ==
    /\ pc = "select_done"
    /\ ~lazy
    /\ selected.best # None
    /\ selected.best[1].image_bytes # None
    /\ \E i \in 1..Len(selected.scored) :
          /\ selected.scored[i].image_bytes = None
          /\ selected.scored[i].score[1] > selected.best[1].score[1]
    /\ \E i, j \in WithBytes :
          /\ i < j
          /\ selected.scored[i] = selected.best[1]
          /\ selected.scored[j].score = selected.best[1].score

\* C12: eager select_best loads bytes for the first min(6, n) candidates in
\* confidence-descending order and for no other, a data: URI is decoded and
\* never requested over HTTP, and every candidate gets a score.
C12_LoadsFirstSix ==
    (pc = "select_done" /\ ~lazy) =>
        /\ Len(selected.loads) = Min(MAX_FETCH, Len(candidates))
        /\ Len(selected.scored) = Len(candidates)
        /\ \A i \in 1..Len(selected.loads) :
              /\ selected.loads[i].src = selected.scored[i].src
              /\ selected.loads[i].via = "http" <=>
                    ~StartsWith(selected.loads[i].src, DATA_PREFIX)
        /\ \A i \in 1..Len(selected.scored) :
              /\ selected.scored[i].score # None
              /\ i > MAX_FETCH => selected.scored[i].image_bytes = None
        /\ candidates # <<>> => ScoredInConfidenceOrder

\* An eager selection over seven candidates: six loads, one of them the inline
\* image decoded with its bytes kept, the seventh candidate scored without bytes.
C12_Witness ==
    /\ pc = "select_done"
    /\ ~lazy
    /\ Len(candidates) = MAX_FETCH + 1
    /\ Len(selected.loads) = MAX_FETCH
    /\ \E i \in 1..MAX_FETCH :
          /\ selected.loads[i] = [src |-> INLINE_IMAGE, via |-> "data"]
          /\ selected.scored[i].image_bytes = Some(<<137, 64, 64, 1>>)
    /\ selected.scored[MAX_FETCH + 1].score = Some(selected.scored[MAX_FETCH + 1].confidence)

-----------------------------------------------------------------------------
(* Properties of discover_logo_candidates (SpecDiscover)                   *)

FAVICON_URL == <<104, 116, 116, 112, 115, 58, 47, 47, 97, 47, 102, 97, 118, 105, 99, 111, 110, 46, 105, 99, 111>>  \* "https://a/favicon.ico"

\* C13: for the page with only a favicon link and an og:image of a hero
\* banner, discover_logo_candidates rejects the og:image, the favicon is the
\* only candidate, and select_best returns it.
C13_OnlyTheFaviconSurvives ==
    (page = FaviconAndHeroPage /\ failure = None /\ pc \in {"discovered", "selected"}) =>
        /\ \A i \in 1..Len(candidates) : candidates[i].source # "og_image"
        /\ candidates = <<build_candidate(FAVICON_URL, "icon", CONFIDENCE_SCORES.icon)>>
        /\ pc = "selected" =>
              selected.best = Some(selected.best[1]) /\ selected.best[1].src = FAVICON_URL

\* The attribute values that match a common path, in the order of their first
\* occurrence in the document.
FirstSeenCommonPathValues ==
    Distinct(SelectSeq([i \in 1..Len(page) |-> page[i].url], matches_common_path))

\* C14: discover_logo_candidates returns each distinct src once, at the
\* position of its first occurrence with the extractors in their fixed order
\* and each enumerating the document in first-seen order: the list is the
\* same on every run for the same page and base URL.
C14_FirstSeenOrderOnEveryRun ==
    (pc = "discovered" /\ failure = None) =>
        /\ \A i, j \in 1..Len(candidates) : i # j => candidates[i].src # candidates[j].src
        /\ candidates =
              discover_logo_candidates(page, base_url, FirstSeenCommonPathValues, None)

\* What extractor k yields before it raises, or all it yields.
YieldedBy(k) ==
    LET output == ExtractorOutput(EXTRACTORS[k], page, base_url, attr_order)
    IN  IF failure # None /\ failure[1].extractor = k
        THEN Take(output, failure[1].after) ELSE output

\* C15: when an extractor raises, discover_logo_candidates still returns: the
\* candidates of the earlier extractors, those the failing one had yielded and
\* those of every later extractor are in the result, and nothing else is.
C15_ExtractorFailureIsLocal ==
    (pc = "discovered" /\ failure # None) =>
        LET expected == UNION {Range(YieldedBy(k)) : k \in 1..Len(EXTRACTORS)}
        IN  /\ {c.src : c \in expected} = {candidates[j].src : j \in 1..Len(candidates)}
            /\ Range(candidates) \subseteq expected

\* The link extractor raises after its first of two candidates, on a page
\* with a JSON-LD logo before it and the common paths after it.
C15_Witness ==
    /\ pc = "discovered"
    /\ failure = Some([extractor |-> 2, after |-> 1])
    /\ Len(ExtractorOutput("link", page, base_url, attr_order)) = 2
    /\ \E j \in 1..Len(candidates) : candidates[j].source = "org_logo"
    /\ \E j \in 1..Len(candidates) : candidates[j].source \in {"icon", "apple_touch"}
    /\ \E j \in 1..Len(candidates) : candidates[j].source = "common_path"

-----------------------------------------------------------------------------
(* Properties of fetch_html (SpecFetch)                                    *)

\* An attempt that ended in a timeout, a connection error or an HTTP 5xx response.
IsTransient(outcome) ==
    \/ outcome.raised \in {"Timeout", "ConnectionError", "ConnectTimeout"}
    \/ outcome.status \in 500..599

\* C16: fetch_html makes at most 3 HTTP attempts per call; every attempt but
\* the last ended in a timeout, a connection error or an HTTP 5xx response;
\* any other outcome ends the call at once; the call never raises, returns
\* (None, None) when its last attempt failed, and the response's URL and
\* text otherwise.
C16_FetchRetriesTransientOnly ==
    /\ Len(attempts) <= 3
    /\ \A i \in 1..(Len(attempts) - 1) : IsTransient(attempts[i])
    /\ (attempts # <<>> /\ ~IsTransient(attempts[Len(attempts)])) => fetched # None
    /\ (attempts # <<>> /\ fetched = None) => Len(attempts) < 3
    /\ fetched # None =>
          LET last == attempts[Len(attempts)]
          IN  /\ fetched[1].raised = ""
              /\ fetched[1].value =
                    (IF last.raised = "" THEN last.value ELSE <<None, None>>)
              /\ last.raised = "" => None \notin Range(last.value)

\* Three transient failures of three kinds, after which the call returned (None, None).
C16_Witness ==
    /\ Len(attempts) = 3
    /\ attempts[1].raised = "Timeout"
    /\ attempts[2].raised = "ConnectionError"
    /\ attempts[3].raised = "RetryableHTTPStatusError"
    /\ attempts[3].status = 503
    /\ fetched = Some(Returns(503, <<None, None>>))

-----------------------------------------------------------------------------
(* Properties of the report writes of group_and_report (SpecReport)        *)

\* C17: whichever of groups.json, pairs_sample.csv and metrics.json fail to
\* be written, group_and_report opens all three for writing, writes those
\* that do not fail, returns instead of raising, and returns the edges,
\* groups and metrics its inputs determine.
C17_ReportWriteFailureIsLocal ==
    pc # "group_ready" =>
        /\ pc = "group_done"
        /\ write_log = <<"groups.json", "pairs_sample.csv", "metrics.json">>
        /\ written \subseteq REPORT_FILES
        /\ report = group_and_report(FeaturesMap, load_normalized_images(FeaturesMap),
                                     orb, total, T_LINK)

\* Only the first write failed; the other two files are there and groups were returned.
C17_Witness ==
    /\ pc = "group_done"
    /\ written = {"pairs_sample.csv", "metrics.json"}
    /\ Len(write_log) = 3
    /\ Len(report.edges) >= 1
    /\ report.metrics.groups >= 2

-----------------------------------------------------------------------------
(* Properties of combined_similarity (SpecSimilarity)                      *)

\* C18: for any two feature records and any optional ORB score, the fused
\* score is in [0, 1] and is the same with the two records swapped, also
\* when a hash is missing or the hash strings or histograms differ in length.
C18_FusedScoreBoundedSymmetric ==
    fused # None =>
        /\ 0 <= fused[1].ab /\ fused[1].ab <= ONE
        /\ 0 <= fused[1].ba /\ fused[1].ba <= ONE
        /\ fused[1].ab = fused[1].ba

\* A pair with a missing dhash on one side only, pHash strings and
\* histograms of different lengths, and a score strictly between 0 and 1.
C18_Witness ==
    /\ fused # None
    /\ pair[1].dhash = <<>> /\ pair[2].dhash # <<>>
    /\ pair[1].phash # <<>> /\ pair[2].phash # <<>>
    /\ Len(pair[1].phash) < Len(pair[2].phash)
    /\ pair[2].hsv_histogram # <<>>
    /\ Len(pair[1].hsv_histogram) > Len(pair[2].hsv_histogram)
    /\ orb_given # None
    /\ 0 < fused[1].ab /\ fused[1].ab < ONE

-----------------------------------------------------------------------------
(* Properties of shortlist_by_hash (SpecShortlist)                         *)

\* The pHash distance of site w to the anchor.
AnchorDistance(w) == hamming_distance_hex(features[anchor_key].phash, features[w].phash)

\* The shortlist of the anchor when the feature map iterates in the given order.
ShortlistIn(order) ==
    shortlist_by_hash(features[anchor_key], [order |-> order, feat |-> features],
                      MAX_CANDIDATES, MAX_HAMMING)

\* C19: entries of the shortlist at equal pHash distance to the anchor are
\* in ascending key order, and the shortlist is the same whatever the
\* iteration order of the feature map.
C19_ShortlistTiesByKey ==
    shortlisted # None =>
        /\ \A i, j \in 1..Len(shortlisted[1]) :
              (i < j /\ AnchorDistance(shortlisted[1][i]) = AnchorDistance(shortlisted[1][j]))
                  => LexLess(shortlisted[1][i], shortlisted[1][j])
        /\ ShortlistIn(Reverse(features_order)) = shortlisted[1]

\* The sites the shortlist of the anchor may hold: other sites with a pHash
\* at distance at most 16.
Eligible ==
    {w \in Sites : /\ w # anchor_key
                   /\ features[w].phash # <<>>
                   /\ AnchorDistance(w) <= 16}

\* C20: the shortlist of an anchor holds only other sites, each once, whose
\* pHash distance to the anchor is at most 16, in non-decreasing distance
\* order; it holds at most 50 of them, all of them when they are at most
\* 50, and no site left out by the cut is strictly closer to the anchor than
\* a site that was kept.
C20_ShortlistNearestFifty ==
    shortlisted # None =>
        LET kept == shortlisted[1]
        IN  /\ Range(kept) \subseteq Eligible
            /\ \A i, j \in 1..Len(kept) : i < j => kept[i] # kept[j]
            /\ \A i \in 1..(Len(kept) - 1) :
                  AnchorDistance(kept[i]) <= AnchorDistance(kept[i + 1])
            /\ Len(kept) <= 50
            /\ features[anchor_key].phash # <<>> => Len(kept) = Min(50, Cardinality(Eligible))
            /\ \A w \in Eligible \ Range(kept) : \A i \in 1..Len(kept) :
                  AnchorDistance(w) >= AnchorDistance(kept[i])

\* A cut: more than 50 eligible sites, the map iterates the far ones first,
\* and the shortlist keeps 50 with near and far ones among them.
C20_Witness ==
    /\ shortlisted # None
    /\ Cardinality(Eligible) > 50
    /\ Len(shortlisted[1]) = 50
    /\ AnchorDistance(features_order[1]) = 16
    /\ AnchorDistance(shortlisted[1][1]) = 0
    /\ AnchorDistance(shortlisted[1][50]) = 16

-----------------------------------------------------------------------------
(* Properties of pairwise_scores (SpecBand)                                *)

\* The base score s of a pair, in 1/64000.
BaseScore(a, b) == combined_similarity(features[a], features[b], None)

\* T_LINK - 0.05 <= s <= T_LINK + 0.10
InBand(s) == 46080 - 3200 <= s /\ s <= 46080 + 6400

\* The pair is in the band and both normalized images are there.
OrbAsked(a, b) ==
    /\ InBand(BaseScore(a, b))
    /\ features[a].normalized_path
    /\ features[b].normalized_path

\* 0.8 * s + 0.2 * o when the matcher is asked, s otherwise.
FinalScore(a, b) ==
    IF OrbAsked(a, b) THEN (8 * BaseScore(a, b) + 2 * 1000 * orb) \div 10
    ELSE BaseScore(a, b)

\* The scores of the edges emitted for the pair (a, b).
EmittedScores(a, b) ==
    {report.edges[i].score : i \in {j \in 1..Len(report.edges) :
        report.edges[j].left = a /\ report.edges[j].right = b}}

\* C21: for a pair a < b within pHash distance 16, the final score is
\* 0.8*s + 0.2*o exactly when the base score s is in [T_LINK - 0.05,
\* T_LINK + 0.10] and both normalized images are available, and s otherwise;
\* the edge is emitted, with the final score, exactly when the final score
\* is at least T_LINK.
C21_OrbOnlyInBand ==
    pc = "group_done" =>
        \A a, b \in Sites :
            (LexLess(a, b) /\ hamming_distance_hex(features[a].phash, features[b].phash) <= 16)
                => EmittedScores(a, b) =
                      (IF FinalScore(a, b) >= 46080 THEN {FinalScore(a, b)} ELSE {})

\* A pair in the band with base score 0.75 >= T_LINK and both images, whose
\* blend with o = 0 is 0.6 and which is dropped; and a pair in the band
\* without both images, which is emitted with its base score.
C21_Witness ==
    /\ pc = "group_done"
    /\ orb = 0
    /\ \E a, b \in Sites :
          /\ LexLess(a, b)
          /\ BaseScore(a, b) = 48000
          /\ OrbAsked(a, b)
          /\ EmittedScores(a, b) = {}
    /\ \E a, b \in Sites :
          /\ LexLess(a, b)
          /\ InBand(BaseScore(a, b))
          /\ ~OrbAsked(a, b)
          /\ EmittedScores(a, b) = {48000}

-----------------------------------------------------------------------------
(* Properties of score_candidate (SpecScore)                               *)

\* The width and height of the image_info are numbers.
Sized == score_input.image_info[1].sized

ScoreWidth == score_input.image_info[1].width

ScoreHeight == score_input.image_info[1].height

\* has_alpha
AlphaBonus == IF score_input.image_info[1].has_alpha THEN 50 ELSE 0

\* 0.8 <= aspect_ratio <= 5.0, the ratio being width / height when both are not 0.
RatioBonus ==
    IF /\ Sized /\ ScoreWidth # 0 /\ ScoreHeight # 0
       /\ 8 * ScoreHeight <= 10 * ScoreWidth
       /\ ScoreWidth <= 5 * ScoreHeight
    THEN 50 ELSE 0

\* min(w, h) < 48
SmallPenalty ==
    IF Sized /\ (ScoreWidth < 48 \/ ScoreHeight < 48) THEN 100 ELSE 0

\* aspect_ratio > 6.0 or (w > 1024 and h > 1024 and not has_alpha)
ShapePenalty ==
    IF /\ Sized
       /\ \/ (ScoreWidth # 0 /\ ScoreHeight # 0 /\ ScoreWidth > 6 * ScoreHeight)
          \/ (ScoreWidth > 1024 /\ ScoreHeight > 1024 /\ AlphaBonus = 0)
    THEN 150 ELSE 0

\* C22: score_candidate returns the confidence when there is no image_info,
\* and otherwise the confidence + 0.05 if has_alpha + 0.05 if the aspect
\* ratio is in [0.8, 5.0] - 0.10 if min(w, h) < 48 - 0.15 if the aspect
\* ratio exceeds 6.0 or the image is larger than 1024 x 1024 without alpha,
\* each applied once and independently, without clamping.
C22_ScoreFormula ==
    score_output # None =>
        score_output[1] =
            IF score_input.image_info = None THEN score_input.candidate.confidence
            ELSE score_input.candidate.confidence
                 + AlphaBonus + RatioBonus - SmallPenalty - ShapePenalty

\* Both bonuses on a confidence of 1 give 1.1, which is returned as it is.
C22_Witness ==
    /\ score_input.candidate.confidence = 1000
    /\ score_input.image_info # None
    /\ AlphaBonus = 50 /\ RatioBonus = 50
    /\ score_output = Some(1100)

-----------------------------------------------------------------------------
(* Properties of the plausible-filename filter (SpecFilter)                *)

\* The positions of the returned candidates whose src is an http(s) url.
HttpCandidates ==
    {i \in 1..Len(candidates) : UrlScheme(candidates[i].src) \in { <<104, 116, 116, 112>>, <<104, 116, 116, 112, 115>> }}  \* "http", "https"

UnlikelyIn(str) == \E word \in UNLIKELY_FILENAME_WORDS : Contains(Lower(str), word)

\* The text has a "." and what follows the last one is none of the extensions.
OtherExtension(str) ==
    /\ IndexOf(str, 46) # 0
    /\ <<46>> \o AfterLast(Lower(str), 46) \notin Range(LOGO_FILENAME_EXTS)

HasKeyword(str) == \E key \in FILENAME_KEYWORDS : Contains(Lower(str), key)

HasLogoExtension(str) == \E e \in Range(LOGO_FILENAME_EXTS) : EndsWith(Lower(str), e)

CandidatePath(i) == UrlPath(candidates[i].src)

CandidateFilename(i) == AfterLast(CandidatePath(i), 47)

\* C23 as stated: no http(s) candidate that discover_logo_candidates returns
\* has a path that matches one of the unlikely words or that has an extension
\* outside the list, and every path has a keyword in its filename or ends in
\* one of the extensions.
C23_NoUnlikelyPath ==
    pc # "discover_start" =>
        \A i \in HttpCandidates :
            /\ ~UnlikelyIn(CandidatePath(i))
            /\ ~OtherExtension(CandidateFilename(i))
            /\ HasKeyword(CandidateFilename(i)) \/ HasLogoExtension(CandidatePath(i))

\* C23: the filter looks at the filename, the text after the last "/" of
\* the path: no http(s) candidate that discover_logo_candidates returns has a
\* filename that matches one of the unlikely words or that has an extension
\* outside the list, and every filename is empty, has a keyword or ends in
\* one of the extensions.
C23_NoUnlikelyFilename ==
    pc # "discover_start" =>
        \A i \in HttpCandidates :
            /\ ~UnlikelyIn(CandidateFilename(i))
            /\ ~OtherExtension(CandidateFilename(i))
            /\ \/ CandidateFilename(i) = <<>>
               \/ HasKeyword(CandidateFilename(i))
               \/ HasLogoExtension(CandidateFilename(i))

\* A page with the logo of the header directory and the hero banner: the
\* first is returned, the second is not.
C23_Witness ==
    /\ pc = "discovered"
    /\ failure = None
    /\ \E i \in 1..Len(page) : page[i].url = <<104, 116, 116, 112, 115, 58, 47, 47, 97, 47, 104, 101, 114, 111, 45, 98, 97, 110, 110, 101, 114, 46, 106, 112, 103>>  \* "https://a/hero-banner.jpg"
    /\ \E i \in 1..Len(page) : page[i].url = <<47, 104, 101, 97, 100, 101, 114, 47, 108, 111, 103, 111, 46, 112, 110, 103>>  \* "/header/logo.png"
    /\ \E i \in HttpCandidates : candidates[i].src = <<104, 116, 116, 112, 115, 58, 47, 47, 97, 47, 104, 101, 97, 100, 101, 114, 47, 108, 111, 103, 111, 46, 112, 110, 103>>  \* "https://a/header/logo.png"
    /\ \A i \in 1..Len(candidates) : candidates[i].src # <<104, 116, 116, 112, 115, 58, 47, 47, 97, 47, 104, 101, 114, 111, 45, 98, 97, 110, 110, 101, 114, 46, 106, 112, 103>>  \* "https://a/hero-banner.jpg"

-----------------------------------------------------------------------------
(* Properties of trim_and_square (SpecTrim)                                *)

\* The image had no alpha channel before it was converted.
WithoutAlpha == trim_input.mode = "RGB"

\* The bounding box of the pixels that differ from the top-left pixel.
BorderBox == color_bbox(convert_rgba(trim_input))

\* C24: of an image without alpha channel the trimmed content is the
\* bounding box of the pixels that differ from the top-left pixel, and the
\* whole image only when there is no such pixel.
C24_OpaqueBorderTrimmed ==
    (pc = "trim_done" /\ WithoutAlpha) =>
        trim_output[1].trimmed =
            IF BorderBox = None THEN convert_rgba(trim_input)
            ELSE crop(convert_rgba(trim_input), BorderBox[1])

-----------------------------------------------------------------------------
(* Properties of the asset files (SpecRun)                                 *)

\* The label of the entry a write is for.
LabelOfWrite(i) == safe_host_label(entries[asset_log[i].site])

\* Write j goes to the file an earlier entry with the same label wrote.
Overwrites(j) ==
    \E i \in 1..(j - 1) :
        /\ asset_log[i].site # asset_log[j].site
        /\ LabelOfWrite(i) = LabelOfWrite(j)
        /\ asset_log[i].name = asset_log[j].name

\* The extension of the file of a write: ".png" or none.
SuffixOfWrite(i) == IF EndsWith(asset_log[i].name, DOT_PNG) THEN DOT_PNG ELSE <<>>

\* The originals written before write j for the label of write j with the
\* same extension.
EarlierOriginals(j) ==
    {i \in 1..(j - 1) : /\ asset_log[i].kind = "original"
                        /\ LabelOfWrite(i) = LabelOfWrite(j)
                        /\ SuffixOfWrite(i) = SuffixOfWrite(j)}

\* The names of the originals are <label>.orig<suffix> for the first and
\* <label>.orig_k<suffix> for the k-th.
OriginalsNumbered ==
    \A j \in 1..Len(asset_log) :
        asset_log[j].kind = "original" =>
            LET k == Cardinality(EarlierOriginals(j)) + 1
            IN  asset_log[j].name =
                    LabelOfWrite(j)
                        \o (IF k = 1 THEN DOT_ORIG ELSE DOT_ORIG_ \o Decimal(k))
                        \o SuffixOfWrite(j)

\* No original is written to a file that is there already.
OriginalsAreNew ==
    \A j \in 1..Len(asset_log) :
        asset_log[j].kind = "original" =>
            \A i \in 1..(j - 1) : asset_log[i].name # asset_log[j].name

\* C25: no write to the assets directory goes to a file written for an
\* earlier entry with the same host label; the k-th original of a label is
\* named with _k before the extension, and the path of an original does not
\* exist when it is chosen.
C25_NoAssetOverwritten ==
    /\ \A j \in 1..Len(asset_log) : ~Overwrites(j)
    /\ OriginalsNumbered
    /\ OriginalsAreNew

\* The originals alone: numbered, new and never overwritten by an original.
OriginalsKept ==
    /\ OriginalsNumbered
    /\ OriginalsAreNew

-----------------------------------------------------------------------------
(* Properties of the shared session and renderer (SpecShared)              *)

\* A caller is about to leave _shutdown_playwright.
ShutdownEnds(t) == caller_pc[t] = "sd_release"

\* A caller is about to leave _ensure_browser_context with the context.
EnsureEnds(t) == caller_pc[t] = "eb_release"

PagedOnClosedContext == pc = "shared" /\ objects.paged_closed # {}

-----------------------------------------------------------------------------
(* Properties of a lazy run (SpecRun)                                      *)

\* C27: with lazy selection the selection is made and carries no image
\* bytes, no entry gets past the bytes check (no file is written to the assets
\* directory, no LogoFeatures row is made), and the run reports extracted = 0,
\* groups = 0 and pairs = 0.
C27_LazyRunExtractsNothing ==
    lazy =>
        /\ pc = "site_selected" => selected.best # None /\ ~CarriesBytes(selected.best)
        /\ feature_rows = <<>>
        /\ asset_log = <<>>
        /\ pc = "main_done" =>
              /\ report.metrics.extracted = 0
              /\ report.metrics.groups = 0
              /\ report.metrics.pairs = 0

\* A lazy run over two entries came to its end.
C27_Witness ==
    /\ lazy
    /\ pc = "main_done"
    /\ Len(entries) = MaxEntries
    /\ report.metrics.total = MaxEntries
    /\ report.metrics.extracted = 0

-----------------------------------------------------------------------------
(* Properties of the common paths (SpecFilter)                             *)

\* C28: discover_logo_candidates returns a list that is not empty, whatever
\* the page, for the base https://a/.
C28_CandidatesNeverEmpty ==
    pc # "discover_start" => candidates # <<>>

\* Without an attribute value that urlparse rejects the 16 common paths are
\* among the candidates.
CommonPathsWhenParsed ==
    (pc # "discover_start" /\ ~common_path_raises(page)) =>
        Cardinality({i \in 1..Len(candidates) : candidates[i].source = "common_path"}) = 16

-----------------------------------------------------------------------------
(* Properties of eager selection over discovered candidates (SpecFilter)   *)

LOW_SOURCES == {"icon", "og_image", "twitter_image"}

\* The positions of the candidates of source icon, og_image or twitter_image.
LowCandidates == {i \in 1..Len(candidates) : candidates[i].source \in LOW_SOURCES}

\* No href of a link and no content of a meta is a common path.
NoCommonPathIcon ==
    \A i \in 1..Len(page) :
        page[i].tag \in {"link", "meta"} => ~matches_common_path(page[i].url)

\* The bytes of a candidate of source icon, og_image or twitter_image were
\* loaded.
LowCandidateLoaded ==
    \E k \in 1..Len(selected.loads), i \in LowCandidates :
        selected.loads[k].src = candidates[i].src

\* There is no such candidate, or six candidates at least have a confidence
\* of 0.65 or more.
SixBeforeLow ==
    LowCandidates # {} =>
        Cardinality({i \in 1..Len(candidates) :
                        candidates[i].confidence >= CONFIDENCE_SCORES.common_path})
            >= MAX_FETCH

\* C29: in an eager selection over the candidates of a page whose link and
\* meta urls are no common paths, no candidate of source icon, og_image or
\* twitter_image is loaded: six candidates of confidence 0.65 or more come
\* before them.
C29_LowSourcesNeverFetched ==
    (pc = "selected" /\ ~lazy /\ NoCommonPathIcon) =>
        /\ ~LowCandidateLoaded
        /\ SixBeforeLow

\* The same for the pages on which the common-path extractor does not raise.
LowSourcesNeverFetchedWhenParsed ==
    (pc = "selected" /\ ~lazy /\ NoCommonPathIcon /\ ~common_path_raises(page)) =>
        /\ ~LowCandidateLoaded
        /\ SixBeforeLow

\* An eager selection over a page with an icon or a social image on which
\* the common-path extractor did not raise.
LowSourcesSelected ==
    /\ pc = "selected" /\ ~lazy /\ NoCommonPathIcon /\ ~common_path_raises(page)
    /\ LowCandidates # {}
    /\ Len(selected.loads) = MAX_FETCH

-----------------------------------------------------------------------------
(* Properties of the emitted pairs (SpecPairs)                             *)

\* Both sites have a pHash and the two are at most 16 bits apart.
WithinHamming(a, b) ==
    /\ features[a].phash # <<>>
    /\ features[b].phash # <<>>
    /\ hamming_distance_hex(features[a].phash, features[b].phash) <= 16

\* Every site has at most 50 other sites within pHash distance 16.
ShortlistsUncut ==
    \A a \in Sites :
        Cardinality({b \in Sites \ {a} : WithinHamming(a, b)}) <= 50

\* The unordered pairs of the emitted edges.
EmittedPairs == {{report.edges[i].left, report.edges[i].right} : i \in 1..Len(report.edges)}

\* The unordered pairs within distance 16 whose final score reaches T_LINK.
LinkedPairs ==
    {{a, b} : <<a, b>> \in {p \in Sites \X Sites :
        /\ LexLess(p[1], p[2])
        /\ WithinHamming(p[1], p[2])
        /\ FinalScore(p[1], p[2]) >= 46080}}

\* C30: when every site has at most 50 other sites within pHash distance 16,
\* pairwise_scores emits exactly one edge for every unordered pair within
\* distance 16 whose final score is at least T_LINK and no edge for any other
\* pair; and in every case no unordered pair is emitted twice.
C30_EachLinkedPairOnce ==
    pc = "group_done" =>
        /\ Cardinality(EmittedPairs) = Len(report.edges)
        /\ \A i \in 1..Len(report.edges) : report.edges[i].left # report.edges[i].right
        /\ ShortlistsUncut => EmittedPairs = LinkedPairs

\* Uncut shortlists, an emitted pair, and a pair more than 16 bits apart whose
\* final score reaches T_LINK and which is not emitted.
C30_Witness ==
    /\ pc = "group_done"
    /\ ShortlistsUncut
    /\ report.edges # <<>>
    /\ \E a, b \in Sites :
          /\ LexLess(a, b)
          /\ features[a].phash # <<>>
          /\ features[b].phash # <<>>
          /\ ~WithinHamming(a, b)
          /\ FinalScore(a, b) >= 46080
          /\ {a, b} \notin EmittedPairs

\* A map one larger than the shortlist: every site has exactly 50 others at
\* distance 0 and every pair is emitted.
FullShortlists ==
    /\ pc = "group_done"
    /\ Cardinality(Sites) = 51
    /\ ShortlistsUncut
    /\ Cardinality(EmittedPairs) = (51 * 50) \div 2

\* A map two larger than the shortlist: some pair of identical logos is cut
\* from both shortlists, and no pair is emitted twice.
CutShortlists ==
    /\ pc = "group_done"
    /\ ~ShortlistsUncut
    /\ EmittedPairs # LinkedPairs

=============================================================================
